---- MODULE Spec2Model ----
(***************************************************************************)
(* Plugin-code validation of codex-cli (src/codex-cli/src/utils/validation) *)
(* as a state machine.  A candidate text, the options and the behaviour of  *)
(* the TypeScript library are fixed by Init; every action is one call of an *)
(* exported validation function on that candidate and records what the call *)
(* returned (or that it threw) and which validators it invoked.             *)
(*                                                                         *)
(* The candidate text is a sequence of chunks (whitespace, comments, import *)
(* declarations, prose, statements carrying an expression tree).  The       *)
(* TypeScript parser is modelled by createSourceFile, which drops trivia,   *)
(* numbers the nodes by start offset and marks syntax errors.               *)
(***************************************************************************)
EXTENDS Integers, Sequences, FiniteSets, TLC

VARIABLES
    pluginCode,       \* the candidate text handed to every call
    options,          \* ValidationOptions | undefined (None)
    tsHost,           \* what the TypeScript library does on this text
    call,             \* name of the last exported function called
    outcome,          \* "none" | "returned" | "threw"
    result,           \* the ValidationResult of the last call
    structureResult,  \* local of validateGeneratedPluginCode (None when not run)
    compilerResult,   \* local of validateGeneratedPluginCode (None when not run)
    invoked,          \* the validators the last call invoked, in call order
    registry,         \* the module-level table COMPONENT_STRUCTURES
    history,          \* the calls made so far: text, function, outcome, issues
    suggestions       \* what generateSuggestion returned so far, issue by issue

vars == <<pluginCode, options, tsHost, call, outcome, result,
          structureResult, compilerResult, invoked, registry, history,
          suggestions>>

(***************************************************************************)
(* Bounds of the model                                                     *)
(***************************************************************************)
\* the most diagnostics the type checker reports on one candidate
MaxDiagnostics == 2
\* the number of start offsets that fall on one line of a candidate
LineWidth == 7
\* the most calls a caller makes one after the other
MaxCalls == 3
\* the most issues a caller asks a suggestion for
MaxAsked == 2

(***************************************************************************)
(* Generic helpers                                                         *)
(***************************************************************************)
None == <<>>
Some(x) == <<x>>

ConcatMap(F(_), s) ==
    LET acc[i \in 0..Len(s)] == IF i = 0 THEN <<>> ELSE acc[i - 1] \o F(s[i])
    IN  acc[Len(s)]

ConcatMapI(F(_, _), s) ==
    LET acc[i \in 0..Len(s)] == IF i = 0 THEN <<>> ELSE acc[i - 1] \o F(s[i], i - 1)
    IN  acc[Len(s)]

SumOver(F(_), s) ==
    LET acc[i \in 0..Len(s)] == IF i = 0 THEN 0 ELSE acc[i - 1] + F(s[i])
    IN  acc[Len(s)]

SeqsUpTo(S, n) == UNION {[1..k -> S] : k \in 0..n}

(***************************************************************************)
(* plugin-validation-types: severities, issues, results                    *)
(***************************************************************************)
ERROR == "error"
WARNING == "warning"
SUGGESTION == "suggestion"

Msg(tmpl, args) == [tmpl |-> tmpl, args |-> args]

\* location, component and suggestion are optional members: None when undefined
Issue(severity, message, code, location, component, suggestion) ==
    [severity |-> severity, message |-> message, code |-> code,
     location |-> location, component |-> component, suggestion |-> suggestion]

Loc(pos) == Some([line |-> pos.line, column |-> pos.column, filePath |-> None])

ValidationResult(isValid, issues) == [isValid |-> isValid, issues |-> issues]

NoResult == ValidationResult(FALSE, <<>>)

(***************************************************************************)
(* PluginComponent                                                         *)
(***************************************************************************)
PluginComponent_DEFINE_APP == "defineApp"
PluginComponent_ACTIONS == "actions"
PluginComponent_AUTH == "auth"
PluginComponent_TRIGGERS == "triggers"
PluginComponent_FIELDS == "fields"
PluginComponent_DYNAMIC_FIELDS == "dynamicFields"
PluginComponent_DYNAMIC_DATA == "dynamicData"

(***************************************************************************)
(* Syntax trees (the part of ts.Node the validators read)                  *)
(***************************************************************************)
Node(kind, text, elems, props) ==
    [kind |-> kind, text |-> text, elems |-> elems, props |-> props,
     calleeKind |-> "", isAsync |-> FALSE, nparams |-> 0, start |-> 0]

NoNode == Node("undefined", "", <<>>, <<>>)

Str(t) == Node("StringLiteral", t, <<>>, <<>>)
Tpl(t) == Node("NoSubstitutionTemplateLiteral", t, <<>>, <<>>)
Num(t) == Node("NumericLiteral", t, <<>>, <<>>)
TrueKw == Node("TrueKeyword", "true", <<>>, <<>>)
FalseKw == Node("FalseKeyword", "false", <<>>, <<>>)
Id(t) == Node("Identifier", t, <<>>, <<>>)
Arr(es) == Node("ArrayLiteralExpression", "", es, <<>>)
Obj(ps) == Node("ObjectLiteralExpression", "", <<>>, ps)
\* f(args): a call whose callee is the identifier f
CallOf(f, args) == [Node("CallExpression", f, args, <<>>) EXCEPT !.calleeKind = "Identifier"]
\* o.f(args): a call whose callee is a property access
MemberCallOf(f, args) ==
    [Node("CallExpression", f, args, <<>>) EXCEPT !.calleeKind = "PropertyAccessExpression"]
Arrow(isAsync, nparams) ==
    [Node("ArrowFunction", "", <<>>, <<>>) EXCEPT !.isAsync = isAsync, !.nparams = nparams]
FnExpr(isAsync, nparams) ==
    [Node("FunctionExpression", "", <<>>, <<>>) EXCEPT !.isAsync = isAsync, !.nparams = nparams]

\* object-literal members
Member(kind, nameKind, name, init) ==
    [kind |-> kind, nameKind |-> nameKind, name |-> name, init |-> init, start |-> 0]
P(name, init) == Member("PropertyAssignment", "Identifier", name, init)
PQ(name, init) == Member("PropertyAssignment", "StringLiteral", name, init)
Shorthand(name) == Member("ShorthandPropertyAssignment", "Identifier", name, NoNode)
\* name(...) {...}: a method of the object literal, which has no initializer
Method(name) == Member("MethodDeclaration", "Identifier", name, NoNode)

isStringLiteral(n) == n.kind = "StringLiteral"
isNoSubstitutionTemplateLiteral(n) == n.kind = "NoSubstitutionTemplateLiteral"
isNumericLiteral(n) == n.kind = "NumericLiteral"
isArrayLiteralExpression(n) == n.kind = "ArrayLiteralExpression"
isObjectLiteralExpression(n) == n.kind = "ObjectLiteralExpression"
isCallExpression(n) == n.kind = "CallExpression"
isArrowFunction(n) == n.kind = "ArrowFunction"
isFunctionExpression(n) == n.kind = "FunctionExpression"
isFunctionDeclaration(n) == n.kind = "FunctionDeclaration"
isIdentifierCall(n, f) == isCallExpression(n) /\ n.calleeKind = "Identifier" /\ n.text = f
isPropertyAssignment(p) == p.kind = "PropertyAssignment"
\* !x for a possibly undefined node
Missing(n) == n.kind = "undefined"

(***************************************************************************)
(* Candidate text                                                          *)
(***************************************************************************)
Chunk(c, text, expr) == [c |-> c, text |-> text, expr |-> expr]
Whitespace == Chunk("whitespace", " ", NoNode)
Comment(t) == Chunk("comment", t, NoNode)
\* import { <t> } from '...'
Import(t) == Chunk("import", t, NoNode)
\* words that are not code
Prose(t) == Chunk("prose", t, NoNode)
ExportDefault(e) == Chunk("exportDefault", "", e)
ExportEquals(e) == Chunk("exportEquals", "", e)
Statement(e) == Chunk("expression", "", e)

\* String.prototype.includes('defineApp') on a piece of text
TextIncludesDefineApp(t) ==
    t \in {"defineApp", "export default defineApp(", "call defineApp here"}

RECURSIVE NodeIncludesDefineApp(_)
NodeIncludesDefineApp(n) ==
    \/ TextIncludesDefineApp(n.text)
    \/ \E i \in 1..Len(n.elems) : NodeIncludesDefineApp(n.elems[i])
    \/ \E i \in 1..Len(n.props) :
          \/ TextIncludesDefineApp(n.props[i].name)
          \/ NodeIncludesDefineApp(n.props[i].init)

ChunkIncludesDefineApp(ch) ==
    TextIncludesDefineApp(ch.text) \/ NodeIncludesDefineApp(ch.expr)

\* String.prototype.trim
RECURSIVE trimStart(_)
trimStart(text) ==
    IF text # <<>> /\ Head(text).c = "whitespace" THEN trimStart(Tail(text)) ELSE text

RECURSIVE trimEnd(_)
trimEnd(text) ==
    IF text # <<>> /\ text[Len(text)].c = "whitespace"
    THEN trimEnd(SubSeq(text, 1, Len(text) - 1))
    ELSE text

trim(text) == trimEnd(trimStart(text))

startsWithImport(text) == text # <<>> /\ Head(text).c = "import"

includesDefineApp(text) == \E i \in 1..Len(text) : ChunkIncludesDefineApp(text[i])

\* the cheap gate of both entry points
looksLikeCode(text) ==
    LET trimmedCode == trim(text)
    IN  startsWithImport(trimmedCode) \/ includesDefineApp(trimmedCode)

NotCodeResult ==
    ValidationResult(FALSE,
        <<Issue(ERROR,
                Msg("Output does not appear to be valid plugin code (missing imports or defineApp).", <<>>),
                "VALIDATION_NOT_CODE", None, None, None)>>)

(***************************************************************************)
(* ts.createSourceFile: statements with start offsets, syntax-error marks  *)
(***************************************************************************)
RECURSIVE Size(_)
Size(n) ==
    IF Missing(n) THEN 0
    ELSE 1 + SumOver(Size, n.elems)
           + SumOver(LAMBDA p : 1 + Size(p.init), n.props)

MemberSize(p) == 1 + Size(p.init)

\* the tree n with every node's start offset set, n itself starting at offset p
RECURSIVE Lay(_, _)
Lay(n, p) ==
    IF Missing(n) THEN n
    ELSE LET elemAt(i) == p + 1 + SumOver(Size, SubSeq(n.elems, 1, i - 1))
             propAt(i) == p + 1 + SumOver(Size, n.elems)
                            + SumOver(MemberSize, SubSeq(n.props, 1, i - 1))
         IN  [n EXCEPT
                !.start = p,
                !.elems = [i \in 1..Len(n.elems) |-> Lay(n.elems[i], elemAt(i))],
                !.props = [i \in 1..Len(n.props) |->
                              [n.props[i] EXCEPT !.start = propAt(i),
                                                 !.init = Lay(n.props[i].init, propAt(i) + 1)]]]

ChunkSize(ch) == 1 + Size(ch.expr)

StatementOf(ch, p) ==
    CASE ch.c = "import" ->
            <<[kind |-> "ImportDeclaration", isExportEquals |-> FALSE, expression |-> NoNode]>>
      [] ch.c = "prose" ->
            <<[kind |-> "ExpressionStatement", isExportEquals |-> FALSE,
               expression |-> Lay(Id(ch.text), p)]>>
      [] ch.c = "exportDefault" ->
            <<[kind |-> "ExportAssignment", isExportEquals |-> FALSE,
               expression |-> Lay(ch.expr, p + 1)]>>
      [] ch.c = "exportEquals" ->
            <<[kind |-> "ExportAssignment", isExportEquals |-> TRUE,
               expression |-> Lay(ch.expr, p + 1)]>>
      [] ch.c = "expression" ->
            <<[kind |-> "ExpressionStatement", isExportEquals |-> FALSE,
               expression |-> Lay(ch.expr, p)]>>
      [] OTHER -> <<>>

\* Never throws on broken syntax: prose is recovered as expression statements
\* and recorded in parseDiagnostics.
createSourceFile(text) ==
    [statements |->
        LET acc[i \in 0..Len(text)] ==
                IF i = 0 THEN <<>>
                ELSE acc[i - 1] \o
                     StatementOf(text[i], SumOver(ChunkSize, SubSeq(text, 1, i - 1)))
        IN  acc[Len(text)],
     parseDiagnostics |-> Cardinality({i \in 1..Len(text) : text[i].c = "prose"})]

getLineAndCharacterOfPosition(start) ==
    [line |-> start \div LineWidth, character |-> start % LineWidth]

(***************************************************************************)
(* ast-structure-validator: tree navigation                                *)
(***************************************************************************)
\* a variant of the search that also accepts `export = defineApp(...)`
findDefineAppNode_anyExport(sourceFile) ==
    LET isMatch(st) == /\ st.kind = "ExportAssignment"
                       /\ isIdentifierCall(st.expression, "defineApp")
        hits == {i \in 1..Len(sourceFile.statements) : isMatch(sourceFile.statements[i])}
    IN  IF hits = {} THEN NoNode
        ELSE sourceFile.statements[CHOOSE i \in hits : \A j \in hits : j <= i].expression

\* the last `export default defineApp(...)` the visit meets, NoNode when none
findDefineAppNode(sourceFile) ==
    LET isMatch(st) == /\ st.kind = "ExportAssignment"
                       /\ st.isExportEquals = FALSE
                       /\ isIdentifierCall(st.expression, "defineApp")
        hits == {i \in 1..Len(sourceFile.statements) : isMatch(sourceFile.statements[i])}
    IN  IF hits = {} THEN NoNode
        ELSE sourceFile.statements[CHOOSE i \in hits : \A j \in hits : j <= i].expression

getDefineAppObject(defineAppNode) ==
    IF Len(defineAppNode.elems) > 0 /\ isObjectLiteralExpression(defineAppNode.elems[1])
    THEN defineAppNode.elems[1]
    ELSE NoNode

NamedAssignment(p, propertyName) ==
    /\ isPropertyAssignment(p)
    /\ p.nameKind \in {"Identifier", "StringLiteral"}
    /\ p.name = propertyName

\* the first property assignment with that name, NoNode when none
findPropertyInObjectLiteral(objLiteral, propertyName) ==
    LET hits == {i \in 1..Len(objLiteral.props) : NamedAssignment(objLiteral.props[i], propertyName)}
    IN  IF hits = {} THEN NoNode
        ELSE objLiteral.props[CHOOSE i \in hits : \A j \in hits : i <= j]

\* a variant of the property map that skips the keys written as string literals
extractObjectProperties_identifiersOnly(objLiteral) ==
    LET named(i) == /\ isPropertyAssignment(objLiteral.props[i])
                    /\ objLiteral.props[i].nameKind = "Identifier"
        idx == {i \in 1..Len(objLiteral.props) : named(i)}
        names == {objLiteral.props[i].name : i \in idx}
        last(nm) == CHOOSE i \in idx : /\ objLiteral.props[i].name = nm
                                      /\ \A j \in idx : objLiteral.props[j].name = nm => j <= i
        firstOf(i) == \A j \in idx : objLiteral.props[j].name = objLiteral.props[i].name => i <= j
        keys[i \in 0..Len(objLiteral.props)] ==
            IF i = 0 THEN <<>>
            ELSE IF i \in idx /\ firstOf(i) THEN Append(keys[i - 1], objLiteral.props[i].name)
                 ELSE keys[i - 1]
    IN  [keys |-> keys[Len(objLiteral.props)],
         value |-> [nm \in names |-> objLiteral.props[last(nm)].init]]

\* Record<string, Expression>: a later assignment to a name overwrites the earlier
\* one; the keys keep the order of their first assignment.
extractObjectProperties(objLiteral) ==
    LET named(i) == /\ isPropertyAssignment(objLiteral.props[i])
                    /\ objLiteral.props[i].nameKind \in {"Identifier", "StringLiteral"}
        idx == {i \in 1..Len(objLiteral.props) : named(i)}
        names == {objLiteral.props[i].name : i \in idx}
        last(nm) == CHOOSE i \in idx : /\ objLiteral.props[i].name = nm
                                      /\ \A j \in idx : objLiteral.props[j].name = nm => j <= i
        firstOf(i) == \A j \in idx : objLiteral.props[j].name = objLiteral.props[i].name => i <= j
        keys[i \in 0..Len(objLiteral.props)] ==
            IF i = 0 THEN <<>>
            ELSE IF i \in idx /\ firstOf(i) THEN Append(keys[i - 1], objLiteral.props[i].name)
                 ELSE keys[i - 1]
    IN  [keys |-> keys[Len(objLiteral.props)],
         value |-> [nm \in names |-> objLiteral.props[last(nm)].init]]

\* properties[name], NoNode for undefined
Get(properties, name) ==
    IF name \in DOMAIN properties.value THEN properties.value[name] ELSE NoNode

getNodePosition(node) ==
    IF Missing(node) THEN [line |-> 0, column |-> 0]
    ELSE LET lc == getLineAndCharacterOfPosition(node.start)
         IN  [line |-> lc.line + 1, column |-> lc.character + 1]

getLineNumber(node) == getNodePosition(node).line

getColumnNumber(node) == getNodePosition(node).column

(***************************************************************************)
(* Ancestor chains stand for ts.Node.parent: the nearest ancestor first.   *)
(***************************************************************************)
AncNode(n) ==
    [kind |-> n.kind, text |-> n.text, calleeKind |-> n.calleeKind,
     nameKind |-> "", initKind |-> ""]
AncMember(p) ==
    [kind |-> p.kind, text |-> p.name, calleeKind |-> "",
     nameKind |-> p.nameKind, initKind |-> p.init.kind]
\* the chain of a child of node n, n having the chain anc
Under(n, anc) == <<AncNode(n)>> \o anc
\* the chain of the initializer of member p of object obj
UnderMember(p, obj, anc) == <<AncMember(p), AncNode(obj)>> \o anc

IsDefineAppCall(a) ==
    a.kind = "CallExpression" /\ a.calleeKind = "Identifier" /\ a.text = "defineApp"

isPropertyOfDefineApp(anc) == \E i \in 1..Len(anc) : IsDefineAppCall(anc[i])

getComponentForNode(node, anc) ==
    LET chain == Under(node, anc)
        named(a, nm) == a.nameKind \in {"Identifier", "StringLiteral"} /\ a.text = nm
        isActions(a) == /\ a.kind = "PropertyAssignment"
                        /\ a.initKind = "ArrayLiteralExpression"
                        /\ named(a, "actions")
        isAuth(a) == /\ a.kind = "PropertyAssignment"
                     /\ a.initKind = "ObjectLiteralExpression"
                     /\ named(a, "auth")
        hit(i) == IsDefineAppCall(chain[i]) \/ isActions(chain[i]) \/ isAuth(chain[i])
        hits == {i \in 1..Len(chain) : hit(i)}
    IN  IF hits = {} THEN None
        ELSE LET a == chain[CHOOSE i \in hits : \A j \in hits : i <= j]
             IN  IF IsDefineAppCall(a) THEN Some(PluginComponent_DEFINE_APP)
                 ELSE IF isActions(a) THEN Some(PluginComponent_ACTIONS)
                 ELSE Some(PluginComponent_AUTH)

(***************************************************************************)
(* ast-structure-validator: validation rules                               *)
(***************************************************************************)
isFunctionLike(node) ==
    ~Missing(node) /\ (isArrowFunction(node) \/ isFunctionExpression(node)
                          \/ isFunctionDeclaration(node))

isBooleanLiteral(node) ==
    ~Missing(node) /\ node.kind \in {"TrueKeyword", "FalseKeyword"}

\* a variant of the type test that takes only quoted strings for strings
HasExpectedType_quotedOnly(property, expectedType) ==
    CASE expectedType = "string" -> isStringLiteral(property)
      [] expectedType = "array" -> isArrayLiteralExpression(property)
      [] expectedType = "object" -> isObjectLiteralExpression(property)
      [] expectedType = "function" ->
            isArrowFunction(property) \/ isFunctionExpression(property)
               \/ isFunctionDeclaration(property)
      [] expectedType = "boolean" -> property.kind \in {"TrueKeyword", "FalseKeyword"}
      [] OTHER -> TRUE

HasExpectedType(property, expectedType) ==
    CASE expectedType = "string" ->
            isStringLiteral(property) \/ isNoSubstitutionTemplateLiteral(property)
      [] expectedType = "array" -> isArrayLiteralExpression(property)
      [] expectedType = "object" -> isObjectLiteralExpression(property)
      [] expectedType = "function" ->
            isArrowFunction(property) \/ isFunctionExpression(property)
               \/ isFunctionDeclaration(property)
      [] expectedType = "boolean" -> property.kind \in {"TrueKeyword", "FalseKeyword"}
      [] OTHER -> TRUE

TypePhrase(expectedType) ==
    CASE expectedType = "string" -> "a string"
      [] expectedType = "array" -> "an array"
      [] expectedType = "object" -> "an object"
      [] expectedType = "function" -> "a function"
      [] OTHER -> "a boolean"

TypeSuggestion(propName, expectedType) ==
    CASE expectedType = "string" -> Msg("Change '%' to a string value, e.g., \"%\": \"value\"", <<propName, propName>>)
      [] expectedType = "array" -> Msg("Change '%' to an array, e.g., \"%\": []", <<propName, propName>>)
      [] expectedType = "object" -> Msg("Change '%' to an object, e.g., \"%\": {}", <<propName, propName>>)
      [] expectedType = "function" -> Msg("Change '%' to a function, e.g., \"%\": () => {}", <<propName, propName>>)
      [] OTHER -> Msg("Change '%' to a boolean, e.g., \"%\": true or \"%\": false", <<propName, propName, propName>>)

\* the rule createTypeValidator(propName, expectedType, severity) applied to node
createTypeValidator(propName, expectedType, severity, node, anc) ==
    IF ~isObjectLiteralExpression(node) THEN <<>>
    ELSE LET property == Get(extractObjectProperties(node), propName)
         IN  IF Missing(property) \/ HasExpectedType(property, expectedType) THEN <<>>
             ELSE <<Issue(severity,
                          Msg("Property '%' must be %.", <<propName, TypePhrase(expectedType)>>),
                          "STRUCTURE_INVALID_TYPE",
                          Loc(getNodePosition(property)),
                          getComponentForNode(node, anc),
                          Some(TypeSuggestion(propName, expectedType)))>>

\* the rule createArrayItemsValidator(arrayPropName, requiredItemProps, severity)
createArrayItemsValidator(arrayPropName, requiredItemProps, severity, node, anc) ==
    IF ~isObjectLiteralExpression(node) THEN <<>>
    ELSE LET arrayProp == Get(extractObjectProperties(node), arrayPropName)
             itemIssues(element, index) ==
                 IF ~isObjectLiteralExpression(element)
                 THEN <<Issue(severity,
                              Msg("Item % in '%' must be an object.", <<ToString(index), arrayPropName>>),
                              "STRUCTURE_INVALID_ARRAY_ITEM",
                              Loc(getNodePosition(element)),
                              getComponentForNode(node, anc), None)>>
                 ELSE LET itemProperties == extractObjectProperties(element)
                          missing(requiredProp) ==
                              IF Missing(Get(itemProperties, requiredProp))
                              THEN <<Issue(severity,
                                           Msg("Item % in '%' is missing required property '%'.",
                                               <<ToString(index), arrayPropName, requiredProp>>),
                                           "STRUCTURE_MISSING_PROPERTY_IN_ARRAY_ITEM",
                                           Loc(getNodePosition(element)),
                                           getComponentForNode(node, anc),
                                           Some(Msg("Add the '%' property to the item at index % in '%'.",
                                                    <<requiredProp, ToString(index), arrayPropName>>)))>>
                              ELSE <<>>
                      IN  ConcatMap(missing, requiredItemProps)
         IN  IF Missing(arrayProp) \/ ~isArrayLiteralExpression(arrayProp) THEN <<>>
             ELSE ConcatMapI(itemIssues, arrayProp.elems)

validateActionImplementation(node, anc) ==
    IF ~isObjectLiteralExpression(node) THEN <<>>
    ELSE LET properties == extractObjectProperties(node)
             runProp == IF ~Missing(Get(properties, "run")) THEN Get(properties, "run")
                        ELSE Get(properties, "handler")
         IN  IF Missing(runProp) THEN <<>>
             ELSE IF ~(isArrowFunction(runProp) \/ isFunctionExpression(runProp)
                          \/ isFunctionDeclaration(runProp)) THEN <<>>
             ELSE (IF runProp.nparams = 0
                   THEN <<Issue(WARNING,
                                Msg("Action handler should have a parameter for auth/context object.", <<>>),
                                "STRUCTURE_ACTION_HANDLER_NO_PARAMS",
                                Loc(getNodePosition(runProp)),
                                Some(PluginComponent_ACTIONS),
                                Some(Msg("Add a parameter to access auth information: run: ({ auth }) => {}", <<>>)))>>
                   ELSE <<>>)
                  \o
                  (IF ~runProp.isAsync
                   THEN <<Issue(WARNING,
                                Msg("Action handler should be an async function or return a Promise.", <<>>),
                                "STRUCTURE_ACTION_HANDLER_NOT_ASYNC",
                                Loc(getNodePosition(runProp)),
                                Some(PluginComponent_ACTIONS),
                                Some(Msg("Make your action handler async: run: async ({ auth }) => {}", <<>>)))>>
                   ELSE <<>>)

\* the first property assignment whose initializer is the node the property map
\* holds for that name, i.e. the last assignment to the name
findPropertyByValue(objLiteral, name) ==
    LET hits == {i \in 1..Len(objLiteral.props) : NamedAssignment(objLiteral.props[i], name)}
    IN  IF hits = {} THEN NoNode
        ELSE objLiteral.props[CHOOSE i \in hits : \A j \in hits : j <= i]

findPropertyByName(objLiteral, name) == findPropertyInObjectLiteral(objLiteral, name)

knownProps == <<"name", "key", "auth", "actions", "description", "version", "icon", "settings">>

InSeq(x, s) == \E i \in 1..Len(s) : s[i] = x

validatePluginStructure(node, anc) ==
    IF ~isObjectLiteralExpression(node) THEN <<>>
    ELSE LET properties == extractObjectProperties(node)
             nesting ==
                 IF ~Missing(Get(properties, "actions")) /\ ~isPropertyOfDefineApp(anc)
                 THEN LET actionsProp == findPropertyByValue(node, "actions")
                      IN  IF Missing(actionsProp) THEN <<>>
                          ELSE <<Issue(ERROR,
                                       Msg("'actions' must be a direct property of defineApp, not nested in another object.", <<>>),
                                       "STRUCTURE_IMPROPER_NESTING",
                                       Loc(getNodePosition(actionsProp)),
                                       Some(PluginComponent_DEFINE_APP),
                                       Some(Msg("Move 'actions' to be a top-level property in the defineApp object.", <<>>)))>>
                 ELSE <<>>
             unknown(prop) ==
                 IF InSeq(prop, knownProps) THEN <<>>
                 ELSE LET propNode == findPropertyByName(node, prop)
                      IN  IF Missing(propNode) THEN <<>>
                          ELSE <<Issue(WARNING,
                                       Msg("Unknown property '%' in defineApp. Recognized properties are: name, key, auth, actions, description, version, icon, settings.", <<prop>>),
                                       "STRUCTURE_UNKNOWN_PROPERTY",
                                       Loc(getNodePosition(propNode)),
                                       Some(PluginComponent_DEFINE_APP), None)>>
         IN  nesting \o (IF isPropertyOfDefineApp(anc)
                         THEN ConcatMap(unknown, properties.keys)
                         ELSE <<>>)

isStringLike(element) ==
    isStringLiteral(element) \/ isNoSubstitutionTemplateLiteral(element)

\* a variant of the rule that flags every occurrence of a repeated string, the
\* first included
validateDependsOnProperty_everyOccurrence(node, anc) ==
    IF ~isObjectLiteralExpression(node) THEN <<>>
    ELSE LET isDependsOn(p) == /\ isPropertyAssignment(p)
                               /\ p.nameKind = "Identifier"
                               /\ p.name = "dependsOn"
             hits == {i \in 1..Len(node.props) : isDependsOn(node.props[i])}
         IN  IF hits = {} THEN <<>>
             ELSE
             LET initializer == node.props[CHOOSE i \in hits : \A j \in hits : i <= j].init
                 pos == getNodePosition(initializer)
                 component == getComponentForNode(node, anc)
                 notString(element, i) ==
                     IF isStringLike(element) THEN <<>>
                     ELSE <<Issue(ERROR,
                                  Msg("Element at index % in 'dependsOn' must be a string.", <<ToString(i)>>),
                                  "STRUCTURE_INVALID_DEPENDSON_ELEMENT",
                                  Loc(getNodePosition(element)), component,
                                  Some(Msg("Ensure all items in the 'dependsOn' array are strings.", <<>>)))>>
                 duplicate(element, i) ==
                     IF /\ isStringLike(element)
                        /\ \E j \in (1..Len(initializer.elems)) \ {i + 1} : /\ isStringLike(initializer.elems[j])
                                           /\ initializer.elems[j].text = element.text
                     THEN <<Issue(WARNING,
                                  Msg("Duplicate dependency '%' found in 'dependsOn' array.", <<element.text>>),
                                  "STRUCTURE_DUPLICATE_DEPENDSON",
                                  Loc(getNodePosition(element)), component,
                                  Some(Msg("Remove duplicate dependencies from the 'dependsOn' array.", <<>>)))>>
                     ELSE <<>>
             IN  IF ~isArrayLiteralExpression(initializer)
                 THEN <<Issue(ERROR,
                              Msg("The 'dependsOn' property must be an array of strings.", <<>>),
                              "STRUCTURE_INVALID_DEPENDSON", Loc(pos), component,
                              Some(Msg("Change 'dependsOn' to an array: [\"dependency1\", \"dependency2\"]", <<>>)))>>
                 ELSE IF Len(initializer.elems) = 0
                 THEN <<Issue(WARNING,
                              Msg("The 'dependsOn' array is empty. If there are no dependencies, consider removing this property.", <<>>),
                              "STRUCTURE_EMPTY_DEPENDSON", Loc(pos), component,
                              Some(Msg("Either add dependencies or remove the empty 'dependsOn' property.", <<>>)))>>
                 ELSE ConcatMapI(notString, initializer.elems)
                      \o ConcatMapI(duplicate, initializer.elems)

validateDependsOnProperty(node, anc) ==
    IF ~isObjectLiteralExpression(node) THEN <<>>
    ELSE LET isDependsOn(p) == /\ isPropertyAssignment(p)
                               /\ p.nameKind = "Identifier"
                               /\ p.name = "dependsOn"
             hits == {i \in 1..Len(node.props) : isDependsOn(node.props[i])}
         IN  IF hits = {} THEN <<>>
             ELSE
             LET initializer == node.props[CHOOSE i \in hits : \A j \in hits : i <= j].init
                 pos == getNodePosition(initializer)
                 component == getComponentForNode(node, anc)
                 notString(element, i) ==
                     IF isStringLike(element) THEN <<>>
                     ELSE <<Issue(ERROR,
                                  Msg("Element at index % in 'dependsOn' must be a string.", <<ToString(i)>>),
                                  "STRUCTURE_INVALID_DEPENDSON_ELEMENT",
                                  Loc(getNodePosition(element)), component,
                                  Some(Msg("Ensure all items in the 'dependsOn' array are strings.", <<>>)))>>
                 duplicate(element, i) ==
                     IF /\ isStringLike(element)
                        /\ \E j \in 1..i : /\ isStringLike(initializer.elems[j])
                                           /\ initializer.elems[j].text = element.text
                     THEN <<Issue(WARNING,
                                  Msg("Duplicate dependency '%' found in 'dependsOn' array.", <<element.text>>),
                                  "STRUCTURE_DUPLICATE_DEPENDSON",
                                  Loc(getNodePosition(element)), component,
                                  Some(Msg("Remove duplicate dependencies from the 'dependsOn' array.", <<>>)))>>
                     ELSE <<>>
             IN  IF ~isArrayLiteralExpression(initializer)
                 THEN <<Issue(ERROR,
                              Msg("The 'dependsOn' property must be an array of strings.", <<>>),
                              "STRUCTURE_INVALID_DEPENDSON", Loc(pos), component,
                              Some(Msg("Change 'dependsOn' to an array: [\"dependency1\", \"dependency2\"]", <<>>)))>>
                 ELSE IF Len(initializer.elems) = 0
                 THEN <<Issue(WARNING,
                              Msg("The 'dependsOn' array is empty. If there are no dependencies, consider removing this property.", <<>>),
                              "STRUCTURE_EMPTY_DEPENDSON", Loc(pos), component,
                              Some(Msg("Either add dependencies or remove the empty 'dependsOn' property.", <<>>)))>>
                 ELSE ConcatMapI(notString, initializer.elems)
                      \o ConcatMapI(duplicate, initializer.elems)

createFieldTypeValidator(fieldType, node, anc) ==
    IF ~isObjectLiteralExpression(node) THEN <<>>
    ELSE LET properties == extractObjectProperties(node)
             type == Get(properties, "type")
             pos == getNodePosition(node)
             optionIssue(option) ==
                 IF isObjectLiteralExpression(option)
                    /\ (Missing(Get(extractObjectProperties(option), "label"))
                           \/ Missing(Get(extractObjectProperties(option), "value")))
                 THEN <<Issue(ERROR,
                              Msg("Dropdown option must have 'label' and 'value' properties.", <<>>),
                              "STRUCTURE_INVALID_DROPDOWN_OPTION",
                              Loc(getNodePosition(option)),
                              Some(PluginComponent_FIELDS), None)>>
                 ELSE <<>>
             specific ==
                 CASE fieldType = "dropdown" ->
                        IF isArrayLiteralExpression(Get(properties, "options"))
                        THEN ConcatMap(optionIssue, Get(properties, "options").elems)
                        ELSE <<>>
                   [] fieldType = "dynamic" ->
                        IF ~isArrayLiteralExpression(Get(properties, "fields"))
                        THEN <<Issue(ERROR,
                                     Msg("Dynamic field must have a 'fields' array.", <<>>),
                                     "STRUCTURE_MISSING_DYNAMIC_FIELDS",
                                     Loc(pos), Some(PluginComponent_FIELDS), None)>>
                        ELSE <<>>
                   [] fieldType = "default" ->
                        IF ~Missing(Get(properties, "default"))
                        THEN <<Issue(ERROR,
                                     Msg("Default field must not have a 'default' property.", <<>>),
                                     "STRUCTURE_DEFAULT_FIELD_DEFAULT",
                                     Loc(pos), None, None)>>
                        ELSE <<>>
                   [] OTHER -> <<>>
             required(prop) ==
                 IF Missing(Get(properties, prop))
                 THEN <<Issue(ERROR,
                              Msg("Field of type '%' is missing required property '%'.", <<fieldType, prop>>),
                              "STRUCTURE_MISSING_FIELD_PROPERTY",
                              Loc(pos), Some(PluginComponent_FIELDS), None)>>
                 ELSE <<>>
         IN  IF Missing(type) \/ ~isStringLiteral(type) THEN <<>>
             ELSE IF type.text = fieldType
                  THEN specific \o ConcatMap(required, <<"key", "label", "type">>)
                  ELSE <<>>

validateAuthFields(node, anc) ==
    IF ~isObjectLiteralExpression(node) THEN <<>>
    ELSE LET fields == Get(extractObjectProperties(node), "fields")
             fieldAnc == Under(fields, UnderMember(findPropertyByValue(node, "fields"), node, anc))
             perField(field) ==
                 IF ~isObjectLiteralExpression(field) THEN <<>>
                 ELSE validateDependsOnProperty(field, fieldAnc)
                      \o (LET fieldType == Get(extractObjectProperties(field), "type")
                          IN  IF ~Missing(fieldType) /\ isStringLiteral(fieldType)
                              THEN createFieldTypeValidator(fieldType.text, field, fieldAnc)
                              ELSE <<Issue(ERROR,
                                           Msg("Field must have a 'type' property that is a string literal.", <<>>),
                                           "STRUCTURE_MISSING_FIELD_TYPE",
                                           Loc(getNodePosition(field)),
                                           Some(PluginComponent_FIELDS), None)>>)
         IN  IF Missing(fields) \/ ~isArrayLiteralExpression(fields) THEN <<>>
             ELSE ConcatMap(perField, fields.elems)

(***************************************************************************)
(* COMPONENT_STRUCTURES: the rule registry.  A rule is kept as data and    *)
(* ApplyRule calls the function it stands for.                             *)
(***************************************************************************)
Rule(rule, propName, expected, itemProps, severity) ==
    [rule |-> rule, propName |-> propName, expected |-> expected,
     itemProps |-> itemProps, severity |-> severity]
TypeRule(propName, expected, severity) == Rule("createTypeValidator", propName, expected, <<>>, severity)
ArrayItemsRule(propName, itemProps, severity) ==
    Rule("createArrayItemsValidator", propName, "", itemProps, severity)
FunctionRule(name) == Rule(name, "", "", <<>>, ERROR)

ApplyRule(r, node, anc) ==
    CASE r.rule = "createTypeValidator" ->
            createTypeValidator(r.propName, r.expected, r.severity, node, anc)
      [] r.rule = "createArrayItemsValidator" ->
            createArrayItemsValidator(r.propName, r.itemProps, r.severity, node, anc)
      [] r.rule = "validatePluginStructure" -> validatePluginStructure(node, anc)
      [] r.rule = "validateActionImplementation" -> validateActionImplementation(node, anc)
      [] r.rule = "validateAuthFields" -> validateAuthFields(node, anc)
      [] r.rule = "validateDependsOnProperty" -> validateDependsOnProperty(node, anc)
      [] OTHER -> <<>>

ComponentStructure(required, requiredProperties, validationRules) ==
    [required |-> required, requiredProperties |-> requiredProperties,
     validationRules |-> validationRules]

COMPONENT_STRUCTURES ==
    (PluginComponent_DEFINE_APP :> ComponentStructure(TRUE,
        <<"name", "key", "categories", "iconUrl", "authDocUrl", "supportsConnections", "apiBaseUrl">>,
        <<TypeRule("name", "string", ERROR),
          TypeRule("key", "string", ERROR),
          TypeRule("categories", "array", ERROR),
          TypeRule("iconUrl", "string", ERROR),
          TypeRule("authDocUrl", "string", ERROR),
          TypeRule("supportsConnections", "boolean", ERROR),
          TypeRule("apiBaseUrl", "string", ERROR),
          TypeRule("actions", "array", WARNING),
          TypeRule("description", "string", WARNING),
          TypeRule("dynamicData", "array", WARNING),
          TypeRule("dynamicFields", "array", WARNING),
          FunctionRule("validatePluginStructure")>>))
    @@ (PluginComponent_ACTIONS :> ComponentStructure(FALSE,
        <<"key", "name", "mode", "description">>,
        <<TypeRule("key", "string", ERROR),
          TypeRule("name", "string", ERROR),
          TypeRule("mode", "string", ERROR),
          TypeRule("description", "string", ERROR),
          ArrayItemsRule("arguments", <<"label", "key", "type", "required">>, WARNING),
          FunctionRule("validateActionImplementation")>>))
    @@ (PluginComponent_AUTH :> ComponentStructure(FALSE,
        <<"">>,
        <<TypeRule("type", "string", WARNING),
          ArrayItemsRule("fields", <<"key", "label", "type">>, WARNING),
          FunctionRule("validateAuthFields")>>))
    @@ (PluginComponent_TRIGGERS :> ComponentStructure(FALSE,
        <<"name", "key", "type", "description">>,
        <<TypeRule("key", "string", ERROR),
          TypeRule("name", "string", ERROR),
          TypeRule("type", "string", ERROR),
          TypeRule("mode", "string", ERROR),
          TypeRule("description", "string", ERROR),
          ArrayItemsRule("arguments", <<"label", "key", "type", "required">>, WARNING),
          FunctionRule("validateDependsOnProperty")>>))
    @@ (PluginComponent_FIELDS :> ComponentStructure(FALSE,
        <<"key", "label", "type", "required">>,
        <<TypeRule("key", "string", ERROR),
          TypeRule("label", "string", ERROR),
          TypeRule("type", "string", ERROR),
          TypeRule("required", "boolean", ERROR),
          FunctionRule("validateDependsOnProperty")>>))
    @@ (PluginComponent_DYNAMIC_FIELDS :> ComponentStructure(FALSE,
        <<"name", "key", "run">>,
        <<TypeRule("name", "string", ERROR),
          TypeRule("key", "string", ERROR),
          TypeRule("run", "function", ERROR)>>))
    @@ (PluginComponent_DYNAMIC_DATA :> ComponentStructure(FALSE,
        <<"name", "key", "run">>,
        <<TypeRule("name", "string", ERROR),
          TypeRule("key", "string", ERROR),
          TypeRule("run", "function", ERROR)>>))

(***************************************************************************)
(* Strings: the few string functions the validators use, on the strings    *)
(* the candidates are built from                                           *)
(***************************************************************************)
\* s.replace(/\s+/g, '-') for the strings that contain a space
\* the characters of the key texts that hold white space; any other text is
\* one piece without white space
characters ==
    ("my app" :> <<"m", "y", " ", "a", "p", "p">>)
    @@ ("send  mail" :> <<"s", "e", "n", "d", " ", " ", "m", "a", "i", "l">>)
    @@ ("my\tapp" :> <<"m", "y", "\t", "a", "p", "p">>)
    @@ ("send\nmail" :> <<"s", "e", "n", "d", "\n", "m", "a", "i", "l">>)
    @@ ("my \tapp" :> <<"m", "y", " ", "\t", "a", "p", "p">>)
    @@ (" mail" :> <<" ", "m", "a", "i", "l">>)
Chars(s) == IF s \in DOMAIN characters THEN characters[s] ELSE <<s>>

\* keyValue.includes(' ')
includesSpace(s) == \E i \in 1..Len(Chars(s)) : Chars(s)[i] = " "

\* the class \s of a regular expression, as far as the candidates go
isWhitespace(c) == c \in {" ", "\t", "\n", "\r"}

\* keyValue.replace(/\s+/g, '-'): every run of white space becomes one dash
replaceSpaces(s) ==
    LET cs == Chars(s)
        out[i \in 0..Len(cs)] ==
            IF i = 0 THEN <<>>
            ELSE IF ~isWhitespace(cs[i]) THEN Append(out[i - 1], cs[i])
            ELSE IF i > 1 /\ isWhitespace(cs[i - 1]) THEN out[i - 1]
            ELSE Append(out[i - 1], "-")
    IN  out[Len(cs)]

lowered == ("Manual" :> "manual") @@ ("OAuth" :> "oauth") @@ ("OAUTH" :> "oauth")
              @@ ("Cookies" :> "cookies")
toLowerCase(s) == IF s \in DOMAIN lowered THEN lowered[s] ELSE s

(***************************************************************************)
(* validateDefineAppStructure                                              *)
(***************************************************************************)
validateDefineAppStructure(defineAppNode) ==
    LET defineAppObject == getDefineAppObject(defineAppNode)
        anc == Under(defineAppNode, <<>>)
        properties == extractObjectProperties(defineAppObject)
        structure == registry[PluginComponent_DEFINE_APP]
        missing(requiredProp) ==
            IF Missing(Get(properties, requiredProp))
            THEN <<Issue(ERROR,
                         Msg("Missing required property '%' in defineApp configuration.", <<requiredProp>>),
                         "STRUCTURE_MISSING_PROPERTY",
                         Loc(getNodePosition(defineAppObject)),
                         Some(PluginComponent_DEFINE_APP),
                         Some(Msg("Add the '%' property to your defineApp configuration.", <<requiredProp>>)))>>
            ELSE <<>>
        rule(r) == ApplyRule(r, defineAppObject, anc)
        key == Get(properties, "key")
        keyIssue ==
            IF ~Missing(key) /\ isStringLiteral(key) /\ includesSpace(key.text)
            THEN <<Issue(ERROR,
                         Msg("The 'key' property cannot contain spaces.", <<>>),
                         "STRUCTURE_INVALID_KEY",
                         Loc(getNodePosition(key)),
                         Some(PluginComponent_DEFINE_APP),
                         Some(Msg("Replace spaces with dashes or underscores: '%'", <<replaceSpaces(key.text)>>)))>>
            ELSE <<>>
    IN  IF Len(defineAppNode.elems) = 0
        THEN <<Issue(ERROR,
                     Msg("defineApp called without arguments. It requires an object with configuration.", <<>>),
                     "STRUCTURE_DEFINEAPP_NO_ARGS",
                     Loc(getNodePosition(defineAppNode)), None, None)>>
        ELSE IF Missing(defineAppObject)
        THEN <<Issue(ERROR,
                     Msg("defineApp must be called with an object literal containing configuration.", <<>>),
                     "STRUCTURE_DEFINEAPP_NOT_OBJECT",
                     Loc(getNodePosition(defineAppNode.elems[1])), None, None)>>
        ELSE ConcatMap(missing, structure.requiredProperties)
             \o ConcatMap(rule, structure.validationRules)
             \o keyIssue
             \o validateDependsOnProperty(defineAppObject, anc)

(***************************************************************************)
(* Actions                                                                 *)
(***************************************************************************)
validateActionProperties(actionObj, index, anc) ==
    LET properties == extractObjectProperties(actionObj)
        structure == registry[PluginComponent_ACTIONS]
        objPos == getNodePosition(actionObj)
        missing(requiredProp) ==
            IF Missing(Get(properties, requiredProp))
            THEN <<Issue(ERROR,
                         Msg("Action at index % is missing required property '%'.", <<ToString(index), requiredProp>>),
                         "STRUCTURE_ACTION_MISSING_PROPERTY",
                         Loc(objPos), Some(PluginComponent_ACTIONS),
                         Some(Msg("Add the '%' property to your action definition.", <<requiredProp>>)))>>
            ELSE <<>>
        implementation ==
            IF Missing(Get(properties, "run")) /\ Missing(Get(properties, "handler"))
            THEN <<Issue(ERROR,
                         Msg("Action at index % must have either a 'run' or 'handler' implementation function.", <<ToString(index)>>),
                         "STRUCTURE_ACTION_MISSING_IMPLEMENTATION",
                         Loc(objPos), Some(PluginComponent_ACTIONS),
                         Some(Msg("Add a 'run' function to implement your action's behavior.", <<>>)))>>
            ELSE <<>>
        rule(r) == ApplyRule(r, actionObj, anc)
        key == Get(properties, "key")
        keyIssue ==
            IF ~Missing(key) /\ isStringLiteral(key) /\ includesSpace(key.text)
            THEN <<Issue(ERROR,
                         Msg("Action 'key' property cannot contain spaces.", <<>>),
                         "STRUCTURE_INVALID_ACTION_KEY",
                         Loc(getNodePosition(key)), Some(PluginComponent_ACTIONS),
                         Some(Msg("Replace spaces with dashes or underscores: '%'", <<replaceSpaces(key.text)>>)))>>
            ELSE <<>>
    IN  ConcatMap(missing, structure.requiredProperties)
        \o implementation
        \o ConcatMap(rule, structure.validationRules)
        \o keyIssue
        \o validateDependsOnProperty(actionObj, anc)

\* a variant of the actions validator that refuses an empty array
validateActionsStructure_emptyRefused(actionsProperty, obj, anc) ==
    LET value == actionsProperty.init
        elemAnc == Under(value, UnderMember(actionsProperty, obj, anc))
        perAction(action, i) ==
            IF isIdentifierCall(action, "defineAction")
            THEN IF Len(action.elems) = 0
                 THEN <<Issue(ERROR,
                              Msg("Action at index % is missing configuration. defineAction requires an object argument.", <<ToString(i)>>),
                              "STRUCTURE_ACTION_NO_ARGS",
                              Loc(getNodePosition(action)), Some(PluginComponent_ACTIONS), None)>>
                 ELSE IF ~isObjectLiteralExpression(action.elems[1])
                 THEN <<Issue(ERROR,
                              Msg("Action at index % must be configured with an object literal.", <<ToString(i)>>),
                              "STRUCTURE_ACTION_NOT_OBJECT",
                              Loc(getNodePosition(action.elems[1])), Some(PluginComponent_ACTIONS), None)>>
                 ELSE validateActionProperties(action.elems[1], i, Under(action, elemAnc))
            ELSE IF isObjectLiteralExpression(action)
            THEN validateActionProperties(action, i, elemAnc)
            ELSE <<Issue(ERROR,
                         Msg("Action at index % must be defined using defineAction or as an object literal.", <<ToString(i)>>),
                         "STRUCTURE_INVALID_ACTION_DEFINITION",
                         Loc(getNodePosition(action)), Some(PluginComponent_ACTIONS), None)>>
    IN  IF ~isArrayLiteralExpression(value)
        THEN <<Issue(ERROR,
                     Msg("The 'actions' property must be an array.", <<>>),
                     "STRUCTURE_ACTIONS_NOT_ARRAY",
                     Loc(getNodePosition(actionsProperty)), Some(PluginComponent_ACTIONS), None)>>
        ELSE IF Len(value.elems) = 0
        THEN <<Issue(ERROR,
                     Msg("The 'actions' array is empty. Plugin should define at least one action.", <<>>),
                     "STRUCTURE_ACTIONS_EMPTY",
                     Loc(getNodePosition(value)), Some(PluginComponent_ACTIONS), None)>>
        ELSE ConcatMapI(perAction, value.elems)
             \o (IF isObjectLiteralExpression(value)
                 THEN validateDependsOnProperty(value, UnderMember(actionsProperty, obj, anc))
                 ELSE <<>>)

\* actionsProperty is a member of the object obj, whose ancestor chain is anc
validateActionsStructure(actionsProperty, obj, anc) ==
    LET value == actionsProperty.init
        elemAnc == Under(value, UnderMember(actionsProperty, obj, anc))
        perAction(action, i) ==
            IF isIdentifierCall(action, "defineAction")
            THEN IF Len(action.elems) = 0
                 THEN <<Issue(ERROR,
                              Msg("Action at index % is missing configuration. defineAction requires an object argument.", <<ToString(i)>>),
                              "STRUCTURE_ACTION_NO_ARGS",
                              Loc(getNodePosition(action)), Some(PluginComponent_ACTIONS), None)>>
                 ELSE IF ~isObjectLiteralExpression(action.elems[1])
                 THEN <<Issue(ERROR,
                              Msg("Action at index % must be configured with an object literal.", <<ToString(i)>>),
                              "STRUCTURE_ACTION_NOT_OBJECT",
                              Loc(getNodePosition(action.elems[1])), Some(PluginComponent_ACTIONS), None)>>
                 ELSE validateActionProperties(action.elems[1], i, Under(action, elemAnc))
            ELSE IF isObjectLiteralExpression(action)
            THEN validateActionProperties(action, i, elemAnc)
            ELSE <<Issue(ERROR,
                         Msg("Action at index % must be defined using defineAction or as an object literal.", <<ToString(i)>>),
                         "STRUCTURE_INVALID_ACTION_DEFINITION",
                         Loc(getNodePosition(action)), Some(PluginComponent_ACTIONS), None)>>
    IN  IF ~isArrayLiteralExpression(value)
        THEN <<Issue(ERROR,
                     Msg("The 'actions' property must be an array.", <<>>),
                     "STRUCTURE_ACTIONS_NOT_ARRAY",
                     Loc(getNodePosition(actionsProperty)), Some(PluginComponent_ACTIONS), None)>>
        ELSE IF Len(value.elems) = 0
        THEN <<Issue(WARNING,
                     Msg("The 'actions' array is empty. Plugin should define at least one action.", <<>>),
                     "STRUCTURE_ACTIONS_EMPTY",
                     Loc(getNodePosition(value)), Some(PluginComponent_ACTIONS), None)>>
        ELSE ConcatMapI(perAction, value.elems)
             \o (IF isObjectLiteralExpression(value)
                 THEN validateDependsOnProperty(value, UnderMember(actionsProperty, obj, anc))
                 ELSE <<>>)

(***************************************************************************)
(* Auth                                                                    *)
(***************************************************************************)
AuthIssue(severity, message, code, pos, suggestion) ==
    Issue(severity, message, code, Loc(pos), Some(PluginComponent_AUTH), suggestion)

\* the closure checkRequiredProps of validateAuthType
checkRequiredProps(requiredProps, code, authType, properties, objPos) ==
    LET missing(prop) ==
            IF Missing(Get(properties, prop))
            THEN <<AuthIssue(ERROR,
                             Msg("'%' authentication requires a '%' property.", <<authType, prop>>),
                             code, objPos, None)>>
            ELSE <<>>
    IN  ConcatMap(missing, requiredProps)

\* the closure validateFieldsArray of validateAuthType
validateFieldsArray(authObj, anc) ==
    LET fields == Get(extractObjectProperties(authObj), "fields")
    IN  IF ~Missing(fields) /\ ~isArrayLiteralExpression(fields)
        THEN <<AuthIssue(ERROR,
                         Msg("The 'fields' property, if present, must be an array.", <<>>),
                         "STRUCTURE_AUTH_FIELDS_NOT_ARRAY", getNodePosition(fields), None)>>
        ELSE IF ~Missing(fields)
        THEN createArrayItemsValidator("fields", <<"key", "label", "type">>, WARNING, authObj, anc)
        ELSE <<>>

\* a variant of checkFieldValue that takes either boolean literal for a flag
checkFieldValue_anyBoolean(fieldProps, propName, expectedKind, expectedValue, code) ==
    LET propNode == Get(fieldProps, propName)
        sameKind == \/ propNode.kind = expectedKind
                    \/ /\ expectedKind \in {"TrueKeyword", "FalseKeyword"}
                       /\ propNode.kind \in {"TrueKeyword", "FalseKeyword"}
    IN  IF ~Missing(propNode) /\ ~sameKind
        THEN <<AuthIssue(ERROR,
                         Msg("Property '%' in the 'cookies' field definition must be '%'.", <<propName, expectedValue>>),
                         code, getNodePosition(propNode), None)>>
        ELSE IF ~Missing(propNode) /\ isStringLiteral(propNode) /\ propNode.text # expectedValue
        THEN <<AuthIssue(ERROR,
                         Msg("Property '%' in the 'cookies' field definition must have the value \"%\". Found \"%\".",
                             <<propName, expectedValue, propNode.text>>),
                         code, getNodePosition(propNode), None)>>
        ELSE <<>>

\* the closure checkFieldValue of the 'cookies' case
checkFieldValue(fieldProps, propName, expectedKind, expectedValue, code) ==
    LET propNode == Get(fieldProps, propName)
    IN  IF ~Missing(propNode) /\ propNode.kind # expectedKind
        THEN <<AuthIssue(ERROR,
                         Msg("Property '%' in the 'cookies' field definition must be '%'.", <<propName, expectedValue>>),
                         code, getNodePosition(propNode), None)>>
        ELSE IF ~Missing(propNode) /\ isStringLiteral(propNode) /\ propNode.text # expectedValue
        THEN <<AuthIssue(ERROR,
                         Msg("Property '%' in the 'cookies' field definition must have the value \"%\". Found \"%\".",
                             <<propName, expectedValue, propNode.text>>),
                         code, getNodePosition(propNode), None)>>
        ELSE <<>>

ValidateManualAuth(authType, authObj, anc) ==
    LET properties == extractObjectProperties(authObj)
        objPos == getNodePosition(authObj)
        fields == Get(properties, "fields")
    IN  (IF Missing(fields) \/ ~isArrayLiteralExpression(fields)
         THEN <<AuthIssue(ERROR,
                          Msg("'%' authentication requires a 'fields' array property defining the required inputs.", <<authType>>),
                          "STRUCTURE_MANUAL_MISSING_FIELDS", objPos,
                          Some(Msg("Add a 'fields' array with objects defining 'key', 'label', and 'type' for each required input.", <<>>)))>>
         ELSE IF Len(fields.elems) = 0
         THEN <<AuthIssue(ERROR,
                          Msg("The 'fields' array for '%' authentication cannot be empty.", <<authType>>),
                          "STRUCTURE_MANUAL_EMPTY_FIELDS", getNodePosition(fields), None)>>
         ELSE validateFieldsArray(authObj, anc))
        \o checkRequiredProps(<<"verifyCredentials", "isStillVerified">>,
                              "STRUCTURE_MANUAL_MISSING_PROPERTY", authType, properties, objPos)

\* a variant of the oauth case that lets a field without a key pass
ValidateOAuthAuth_keyIfPresent(authType, authObj, anc) ==
    LET properties == extractObjectProperties(authObj)
        objPos == getNodePosition(authObj)
        fieldsProp == Get(properties, "fields")
        fieldElement == fieldsProp.elems[1]
        keyProp == Get(extractObjectProperties(fieldElement), "key")
    IN  checkRequiredProps(<<"type", "fields", "verifyCredentials", "isStillVerified">>,
                           "STRUCTURE_OAUTH_MISSING_PROPERTY", authType, properties, objPos)
        \o
        (IF ~Missing(fieldsProp) /\ isArrayLiteralExpression(fieldsProp)
         THEN IF Len(fieldsProp.elems) # 1
              THEN <<AuthIssue(ERROR,
                               Msg("OAuth authentication requires the 'fields' array to contain exactly one item (the 'oAuthRedirectUrl' definition).", <<>>),
                               "STRUCTURE_OAUTH_INVALID_FIELD_COUNT", getNodePosition(fieldsProp), None)>>
              ELSE IF isObjectLiteralExpression(fieldElement)
              THEN IF ~Missing(keyProp) /\ (~isStringLiteral(keyProp) \/ keyProp.text # "oAuthRedirectUrl")
                   THEN <<AuthIssue(ERROR,
                                    Msg("The single field in the 'fields' array for OAuth authentication must have the key 'oAuthRedirectUrl'.", <<>>),
                                    "STRUCTURE_OAUTH_INVALID_FIELD_KEY",
                                    IF ~Missing(keyProp) THEN getNodePosition(keyProp)
                                    ELSE getNodePosition(fieldElement),
                                    None)>>
                   ELSE <<>>
              ELSE <<AuthIssue(ERROR,
                               Msg("The item in the 'fields' array for OAuth authentication must be an object literal.", <<>>),
                               "STRUCTURE_OAUTH_FIELD_NOT_OBJECT", getNodePosition(fieldElement), None)>>
         ELSE IF Missing(fieldsProp)
         THEN <<AuthIssue(ERROR,
                          Msg("OAuth authentication requires a 'fields' array containing the 'oAuthRedirectUrl' field definition.", <<>>),
                          "STRUCTURE_OAUTH_MISSING_FIELDS_ARRAY", objPos, None)>>
         ELSE <<AuthIssue(ERROR,
                          Msg("The 'fields' property for OAuth authentication must be an array.", <<>>),
                          "STRUCTURE_OAUTH_FIELDS_NOT_ARRAY", getNodePosition(fieldsProp), None)>>)

ValidateOAuthAuth(authType, authObj, anc) ==
    LET properties == extractObjectProperties(authObj)
        objPos == getNodePosition(authObj)
        fieldsProp == Get(properties, "fields")
        fieldElement == fieldsProp.elems[1]
        keyProp == Get(extractObjectProperties(fieldElement), "key")
    IN  checkRequiredProps(<<"type", "fields", "verifyCredentials", "isStillVerified">>,
                           "STRUCTURE_OAUTH_MISSING_PROPERTY", authType, properties, objPos)
        \o
        (IF ~Missing(fieldsProp) /\ isArrayLiteralExpression(fieldsProp)
         THEN IF Len(fieldsProp.elems) # 1
              THEN <<AuthIssue(ERROR,
                               Msg("OAuth authentication requires the 'fields' array to contain exactly one item (the 'oAuthRedirectUrl' definition).", <<>>),
                               "STRUCTURE_OAUTH_INVALID_FIELD_COUNT", getNodePosition(fieldsProp), None)>>
              ELSE IF isObjectLiteralExpression(fieldElement)
              THEN IF Missing(keyProp) \/ ~isStringLiteral(keyProp) \/ keyProp.text # "oAuthRedirectUrl"
                   THEN <<AuthIssue(ERROR,
                                    Msg("The single field in the 'fields' array for OAuth authentication must have the key 'oAuthRedirectUrl'.", <<>>),
                                    "STRUCTURE_OAUTH_INVALID_FIELD_KEY",
                                    IF ~Missing(keyProp) THEN getNodePosition(keyProp)
                                    ELSE getNodePosition(fieldElement),
                                    None)>>
                   ELSE <<>>
              ELSE <<AuthIssue(ERROR,
                               Msg("The item in the 'fields' array for OAuth authentication must be an object literal.", <<>>),
                               "STRUCTURE_OAUTH_FIELD_NOT_OBJECT", getNodePosition(fieldElement), None)>>
         ELSE IF Missing(fieldsProp)
         THEN <<AuthIssue(ERROR,
                          Msg("OAuth authentication requires a 'fields' array containing the 'oAuthRedirectUrl' field definition.", <<>>),
                          "STRUCTURE_OAUTH_MISSING_FIELDS_ARRAY", objPos, None)>>
         ELSE <<AuthIssue(ERROR,
                          Msg("The 'fields' property for OAuth authentication must be an array.", <<>>),
                          "STRUCTURE_OAUTH_FIELDS_NOT_ARRAY", getNodePosition(fieldsProp), None)>>)

ValidateCookiesAuth(authType, authObj, anc) ==
    LET properties == extractObjectProperties(authObj)
        objPos == getNodePosition(authObj)
        fieldsProp == Get(properties, "fields")
        fieldDef == fieldsProp.elems[1]
        fieldProps == extractObjectProperties(fieldDef)
        fieldPos == getNodePosition(fieldDef)
        missing(prop) ==
            IF Missing(Get(fieldProps, prop))
            THEN <<AuthIssue(ERROR,
                             Msg("The field definition in 'cookies' auth is missing the required property '%'.", <<prop>>),
                             "STRUCTURE_COOKIE_FIELD_MISSING_PROP", fieldPos, None)>>
            ELSE <<>>
    IN  checkRequiredProps(<<"type", "fields", "verifyCredentials", "isStillVerified">>,
                           "STRUCTURE_COOKIE_MISSING_PROPERTY", authType, properties, objPos)
        \o
        (IF ~Missing(fieldsProp) /\ isArrayLiteralExpression(fieldsProp)
         THEN IF Len(fieldsProp.elems) # 1
              THEN <<AuthIssue(ERROR,
                               Msg("'cookies' authentication requires the 'fields' array to contain exactly one field definition.", <<>>),
                               "STRUCTURE_COOKIE_INVALID_FIELD_COUNT", getNodePosition(fieldsProp), None)>>
              ELSE IF isObjectLiteralExpression(fieldDef)
              THEN ConcatMap(missing, <<"key", "label", "type", "required", "readOnly", "clickToCopy">>)
                   \o checkFieldValue(fieldProps, "type", "StringLiteral", "string", "STRUCTURE_COOKIE_FIELD_INVALID_TYPE")
                   \o checkFieldValue(fieldProps, "required", "TrueKeyword", "true", "STRUCTURE_COOKIE_FIELD_INVALID_REQUIRED")
                   \o checkFieldValue(fieldProps, "readOnly", "TrueKeyword", "true", "STRUCTURE_COOKIE_FIELD_INVALID_READONLY")
                   \o checkFieldValue(fieldProps, "clickToCopy", "FalseKeyword", "false", "STRUCTURE_COOKIE_FIELD_INVALID_CLICKTOCOPY")
              ELSE <<AuthIssue(ERROR,
                               Msg("The element in the 'fields' array for 'cookies' auth must be an object literal.", <<>>),
                               "STRUCTURE_COOKIE_FIELD_NOT_OBJECT", getNodePosition(fieldDef), None)>>
         ELSE IF Missing(fieldsProp) THEN <<>>
         ELSE <<AuthIssue(ERROR,
                          Msg("The 'fields' property for 'cookies' authentication must be an array.", <<>>),
                          "STRUCTURE_COOKIE_FIELDS_NOT_ARRAY", getNodePosition(fieldsProp), None)>>)

validateAuthType(authType, authObj, anc) ==
    CASE toLowerCase(authType) = "manual" -> ValidateManualAuth(authType, authObj, anc)
      [] toLowerCase(authType) = "oauth" -> ValidateOAuthAuth(authType, authObj, anc)
      [] toLowerCase(authType) = "cookies" -> ValidateCookiesAuth(authType, authObj, anc)
      [] OTHER ->
            LET type == Get(extractObjectProperties(authObj), "type")
            IN  IF ~Missing(type)
                THEN <<AuthIssue(WARNING,
                                 Msg("Unknown or unsupported authentication type '%'. Supported types are 'manual', 'oauth', 'cookies'.", <<authType>>),
                                 "STRUCTURE_UNKNOWN_AUTH_TYPE", getNodePosition(type), None)>>
                ELSE <<>>

\* authProperty is a member of the object obj, whose ancestor chain is anc
validateAuthStructure(authProperty, obj, anc) ==
    LET value == authProperty.init
        valueAnc == UnderMember(authProperty, obj, anc)
        properties == extractObjectProperties(value)
        type == Get(properties, "type")
        missing(requiredProp) ==
            IF Missing(Get(properties, requiredProp))
            THEN <<AuthIssue(ERROR,
                             Msg("Missing required property '%' in auth configuration.", <<requiredProp>>),
                             "STRUCTURE_AUTH_MISSING_PROPERTY", getNodePosition(value),
                             Some(Msg("Add the '%' property to your auth configuration.", <<requiredProp>>)))>>
            ELSE <<>>
    IN  IF ~isObjectLiteralExpression(value)
        THEN <<AuthIssue(ERROR,
                         Msg("The 'auth' property must be an object literal.", <<>>),
                         "STRUCTURE_AUTH_NOT_OBJECT", getNodePosition(authProperty), None)>>
        ELSE ConcatMap(missing, registry[PluginComponent_AUTH].requiredProperties)
             \o (IF ~Missing(type) /\ isStringLiteral(type)
                 THEN validateAuthType(type.text, value, valueAnc)
                 ELSE <<>>)
             \o validateDependsOnProperty(value, valueAnc)

(***************************************************************************)
(* Triggers                                                                *)
(***************************************************************************)
createInvalidTypeError(propName, expectedType, node, anc) ==
    LET propertyNode == Get(extractObjectProperties(node), propName)
    IN  Issue(ERROR,
              Msg("Property '%' must be a %.", <<propName, expectedType>>),
              "STRUCTURE_INVALID_TYPE",
              Loc(getNodePosition(IF Missing(propertyNode) THEN node ELSE propertyNode)),
              getComponentForNode(node, anc),
              Some(Msg("Ensure the value for '%' is a valid %.", <<propName, expectedType>>)))

\* a variant of the list that also admits the type cron
validTypes_withCron == <<"messaging", "webhook", "polling", "internal", "cron">>

validTypes == <<"messaging", "webhook", "polling", "internal">>

validateTriggerProperties(triggerObj, index, anc) ==
    LET properties == extractObjectProperties(triggerObj)
        triggerTypeProperty == Get(properties, "type")
        triggerPos == getNodePosition(triggerObj)
        has(name) == ~Missing(Get(properties, name))
        TriggerIssue(severity, message, code, pos, suggestion) ==
            Issue(severity, message, code, Loc(pos), Some(PluginComponent_TRIGGERS), suggestion)
        missing(requiredProp) ==
            IF ~has(requiredProp)
            THEN <<TriggerIssue(ERROR,
                                Msg("Trigger at index % is missing required property '%'.", <<ToString(index), requiredProp>>),
                                "STRUCTURE_TRIGGER_MISSING_PROPERTY", triggerPos,
                                Some(Msg("Add the '%' property to the trigger definition.", <<requiredProp>>)))>>
            ELSE <<>>
        typeValue == triggerTypeProperty.text
        wrong(name, expectedType, ok) ==
            IF has(name) /\ ~ok THEN <<createInvalidTypeError(name, expectedType, triggerObj, anc)>>
            ELSE <<>>
        notFunction(name) == wrong(name, "function", isFunctionLike(Get(properties, name)))
        notString(name) == wrong(name, "string", isStringLiteral(Get(properties, name)))
        polling ==
            IF typeValue # "polling" THEN <<>>
            ELSE IF has("pollInterval") /\ ~isNumericLiteral(Get(properties, "pollInterval"))
            THEN <<TriggerIssue(ERROR,
                                Msg("Property 'pollInterval' for polling trigger must be a number.", <<>>),
                                "STRUCTURE_INVALID_TYPE",
                                getNodePosition(Get(properties, "pollInterval")), None)>>
            ELSE IF ~has("run")
            THEN <<TriggerIssue(WARNING,
                                Msg("Polling trigger at index % should typically have a 'run' function.", <<ToString(index)>>),
                                "STRUCTURE_TRIGGER_MISSING_RUN", triggerPos, None)>>
            ELSE <<>>
        hooks ==
            IF typeValue \in {"webhook", "messaging"}
            THEN notFunction("registerHook") \o notFunction("unregisterHook")
                 \o notFunction("getRespondingAction")
            ELSE <<>>
        typeIssues ==
            IF has("type") /\ isStringLiteral(triggerTypeProperty)
            THEN (IF ~InSeq(typeValue, validTypes)
                  THEN <<TriggerIssue(ERROR,
                                      Msg("Invalid trigger type '%'. Must be one of: messaging, webhook, polling, internal.", <<typeValue>>),
                                      "STRUCTURE_INVALID_TRIGGER_TYPE",
                                      getNodePosition(triggerTypeProperty), None)>>
                  ELSE <<>>)
                 \o polling \o hooks
            ELSE IF has("type")
            THEN <<createInvalidTypeError("type", "string", triggerObj, anc)>>
            ELSE <<>>
        options_ == Get(properties, "pollIntervalOptions")
        badOptions == {i \in 1..Len(options_.elems) : ~isNumericLiteral(options_.elems[i])}
        pollIntervalOptions ==
            IF has("pollIntervalOptions") /\ ~isArrayLiteralExpression(options_)
            THEN <<createInvalidTypeError("pollIntervalOptions", "array", triggerObj, anc)>>
            ELSE IF has("pollIntervalOptions") /\ badOptions # {}
            THEN <<TriggerIssue(ERROR,
                                Msg("Elements in 'pollIntervalOptions' must be numbers.", <<>>),
                                "STRUCTURE_INVALID_TYPE",
                                getNodePosition(options_.elems[CHOOSE i \in badOptions : \A j \in badOptions : i <= j]),
                                None)>>
            ELSE <<>>
    IN  ConcatMap(missing, <<"name", "key", "type", "description">>)
        \o typeIssues
        \o notString("name") \o notString("key") \o notString("description")
        \o notFunction("run") \o notFunction("testRun") \o notFunction("filter")
        \o notFunction("getInterval")
        \o wrong("showWebhookUrl", "boolean", isBooleanLiteral(Get(properties, "showWebhookUrl")))
        \o pollIntervalOptions
        \o validateDependsOnProperty(triggerObj, anc)

\* triggersProperty is a member of the object obj, whose ancestor chain is anc
validateTriggersStructure(triggersProperty, obj, anc) ==
    LET value == triggersProperty.init
        elemAnc == Under(value, UnderMember(triggersProperty, obj, anc))
        TriggerError(message, code, node) ==
            Issue(ERROR, message, code, Loc(getNodePosition(node)),
                  Some(PluginComponent_TRIGGERS), None)
        perTrigger(triggerNode, i) ==
            IF isIdentifierCall(triggerNode, "defineTrigger")
            THEN IF Len(triggerNode.elems) = 0
                 THEN <<TriggerError(Msg("Trigger at index % is missing configuration. defineTrigger requires an object argument.", <<ToString(i)>>),
                                     "STRUCTURE_TRIGGER_NO_ARGS", triggerNode)>>
                 ELSE IF ~isObjectLiteralExpression(triggerNode.elems[1])
                 THEN <<TriggerError(Msg("Trigger at index % must be configured with an object literal.", <<ToString(i)>>),
                                     "STRUCTURE_TRIGGER_NOT_OBJECT", triggerNode.elems[1])>>
                 ELSE validateTriggerProperties(triggerNode.elems[1], i, Under(triggerNode, elemAnc))
            ELSE IF isObjectLiteralExpression(triggerNode)
            THEN validateTriggerProperties(triggerNode, i, elemAnc)
            ELSE <<TriggerError(Msg("Trigger at index % must be defined using defineTrigger or as an object literal.", <<ToString(i)>>),
                                "STRUCTURE_INVALID_TRIGGER_DEFINITION", triggerNode)>>
    IN  IF ~isArrayLiteralExpression(value)
        THEN <<Issue(ERROR,
                     Msg("The 'triggers' property must be an array.", <<>>),
                     "STRUCTURE_TRIGGERS_NOT_ARRAY",
                     Loc(getNodePosition(triggersProperty)),
                     Some(PluginComponent_DEFINE_APP), None)>>
        ELSE ConcatMapI(perTrigger, value.elems)

(***************************************************************************)
(* validateWithTsAST                                                       *)
(***************************************************************************)
\* a variant of the verdict that lets any issue, of any severity, fail the text
hasError_anyIssue(issues) == issues # <<>>

hasError(issues) == \E i \in 1..Len(issues) : issues[i].severity = ERROR

ParseErrorIssue(host) ==
    Issue(ERROR, Msg("Failed to parse plugin code: %", <<host.parseError>>),
          "STRUCTURE_PARSE_ERROR", None, None, None)

\* what a stretch of the try block did: the issues pushed, the validators invoked
Did(issues, invoked_) == [issues |-> issues, invoked |-> invoked_]

Then(first, second) ==
    Did(first.issues \o second.issues, first.invoked \o second.invoked)

\* if (property) { issues.push(...validator(property)); }
IfPresent(property, name, issues) ==
    IF Missing(property) THEN Did(<<>>, <<>>) ELSE Did(issues, <<name>>)

AuthStep(authProperty, defineAppObject, anc) ==
    IF Missing(authProperty) /\ registry[PluginComponent_AUTH].required
    THEN Did(<<Issue(ERROR,
                     Msg("Missing 'auth' property in defineApp. Authentication configuration is required.", <<>>),
                     "STRUCTURE_MISSING_AUTH",
                     Some([line |-> getLineNumber(defineAppObject),
                           column |-> getColumnNumber(defineAppObject),
                           filePath |-> None]),
                     None, None)>>,
             <<>>)
    ELSE IfPresent(authProperty, "validateAuthStructure",
                   validateAuthStructure(authProperty, defineAppObject, anc))

\* the actions, auth and triggers of the configuration object, when there is one
SubComponents(defineAppObject, anc, actionsProperty, authProperty, triggersProperty) ==
    IF Missing(defineAppObject) THEN Did(<<>>, <<>>)
    ELSE Then(Then(IfPresent(actionsProperty, "validateActionsStructure",
                             validateActionsStructure(actionsProperty, defineAppObject, anc)),
                   AuthStep(authProperty, defineAppObject, anc)),
              IfPresent(triggersProperty, "validateTriggersStructure",
                        validateTriggersStructure(triggersProperty, defineAppObject, anc)))

DescriptorPass(defineAppNode, defineAppObject) ==
    IF Missing(defineAppNode)
    THEN Did(<<Issue(ERROR,
                     Msg("Missing defineApp export. Plugin must export a default defineApp expression.", <<>>),
                     "STRUCTURE_MISSING_DEFINEAPP", None, None, None)>>,
             <<"findDefineAppNode">>)
    ELSE Then(Did(validateDefineAppStructure(defineAppNode),
                  <<"findDefineAppNode", "validateDefineAppStructure", "getDefineAppObject">>),
              SubComponents(defineAppObject, Under(defineAppNode, <<>>),
                            findPropertyInObjectLiteral(defineAppObject, "actions"),
                            findPropertyInObjectLiteral(defineAppObject, "auth"),
                            findPropertyInObjectLiteral(defineAppObject, "triggers")))

\* the body of the try block once the source file is parsed
StructuralPass(sourceFile) ==
    DescriptorPass(findDefineAppNode(sourceFile),
                   getDefineAppObject(findDefineAppNode(sourceFile)))

\* the issues list at the return statement, and the validators invoked
CollectStructuralIssues(text, host) ==
    IF host.parseThrows
    THEN Did(<<ParseErrorIssue(host)>>, <<"createSourceFile">>)
    ELSE Then(Did(<<>>, <<"createSourceFile">>), StructuralPass(createSourceFile(text)))

\* the return statement
Verdict(pass) ==
    [result |-> ValidationResult(~hasError(pass.issues), pass.issues),
     invoked |-> pass.invoked]

\* the ValidationResult returned (result), with the validators invoked on the way
validateWithTsAST(text, opts, host) == Verdict(CollectStructuralIssues(text, host))

(***************************************************************************)
(* ts-compiler-validator                                                   *)
(***************************************************************************)
tempFileName == "tempPlugin.ts"

DiagnosticSeverity(diagnostic) ==
    IF diagnostic.category = "Error" THEN ERROR
    ELSE IF diagnostic.category = "Warning" THEN WARNING
    ELSE SUGGESTION

DiagnosticIssue(diagnostic) ==
    Issue(DiagnosticSeverity(diagnostic),
          Msg(diagnostic.messageText, <<>>),
          "TS" \o diagnostic.code,
          IF diagnostic.hasFile
          THEN LET lc == getLineAndCharacterOfPosition(diagnostic.start)
               IN  Some([line |-> lc.line + 1, column |-> lc.character + 1,
                         filePath |-> Some(tempFileName)])
          ELSE None,
          None, None)

\* ts.getPreEmitDiagnostics: one syntactic Error per stretch of text that is
\* not code, then what the type checker of the host reports
getPreEmitDiagnostics(text, host) ==
    LET syntactic(ch, i) ==
            IF ch.c = "prose"
            THEN <<[category |-> "Error", code |-> "1434", hasFile |-> TRUE,
                    start |-> SumOver(ChunkSize, SubSeq(text, 1, i)),
                    messageText |-> "Unexpected keyword or identifier."]>>
            ELSE <<>>
    IN  ConcatMapI(syntactic, text) \o host.diagnostics

\* createSourceFile and createProgram run outside any try block
compilerThrows(host) == host.parseThrows \/ host.programThrows

\* the forEach over the diagnostics: the flag isValid and the issues pushed
validateWithTsCompiler(text, host) ==
    LET allDiagnostics == getPreEmitDiagnostics(text, host)
        loop[i \in 0..Len(allDiagnostics)] ==
            IF i = 0 THEN ValidationResult(TRUE, <<>>)
            ELSE LET issue == DiagnosticIssue(allDiagnostics[i])
                 IN  ValidationResult(
                        IF issue.severity = ERROR THEN FALSE ELSE loop[i - 1].isValid,
                        Append(loop[i - 1].issues, issue))
    IN  loop[Len(allDiagnostics)]

(***************************************************************************)
(* structure-validator (the regex prefilter)                               *)
(***************************************************************************)
RECURSIVE BracketPairs(_)
BracketPairs(n) ==
    IF Missing(n) THEN 0
    ELSE (CASE n.kind \in {"ArrayLiteralExpression", "ObjectLiteralExpression", "CallExpression"} -> 1
            [] n.kind \in {"ArrowFunction", "FunctionExpression"} -> 2
            [] OTHER -> 0)
         + SumOver(BracketPairs, n.elems)
         + SumOver(LAMBDA p : BracketPairs(p.init), n.props)

\* matches of /\{|\[|\(/g and of /\}|\}|\]|\)/g in one chunk
OpenBrackets(ch) ==
    BracketPairs(ch.expr) + (IF ch.text = "export default defineApp(" THEN 1 ELSE 0)
CloseBrackets(ch) == BracketPairs(ch.expr)

\* /export\s+default\s+defineApp\s*\(/
MatchesExportDefineApp(ch) ==
    \/ ch.c = "exportDefault" /\ isIdentifierCall(ch.expr, "defineApp")
    \/ ch.text = "export default defineApp("

\* /import\s+.*?defineApp.*?from\s+['"].*?['"]/
MatchesImportDefineApp(ch) == ch.c = "import" /\ TextIncludesDefineApp(ch.text)

validateStructureWithRegex(text) ==
    LET hasExport == \E i \in 1..Len(text) : MatchesExportDefineApp(text[i])
        hasImport == \E i \in 1..Len(text) : MatchesImportDefineApp(text[i])
        openBrackets == SumOver(OpenBrackets, text)
        closeBrackets == SumOver(CloseBrackets, text)
        step1 == IF ~hasExport
                 THEN ValidationResult(FALSE,
                        <<Issue(ERROR,
                                Msg("Plugin code must include 'export default defineApp(...)'.", <<>>),
                                "STRUCTURE_MISSING_DEFINEAPP_EXPORT", None, None, None)>>)
                 ELSE ValidationResult(TRUE, <<>>)
        step2 == IF ~hasImport
                 THEN ValidationResult(step1.isValid,
                        Append(step1.issues,
                               Issue(WARNING,
                                     Msg("Could not find a standard import for 'defineApp'. Ensure it is correctly imported.", <<>>),
                                     "STRUCTURE_MISSING_DEFINEAPP_IMPORT", None, None, None)))
                 ELSE step1
        step3 == IF openBrackets # closeBrackets
                 THEN ValidationResult(step2.isValid,
                        Append(step2.issues,
                               Issue(WARNING,
                                     Msg("Potential bracket/parenthesis imbalance detected (Open: %, Close: %). Review code carefully.",
                                         <<ToString(openBrackets), ToString(closeBrackets)>>),
                                     "STRUCTURE_BRACKET_IMBALANCE", None, None, None)))
                 ELSE step2
    IN  step3

(***************************************************************************)
(* generateSuggestion.  The message it scans is the sequence of its        *)
(* characters (Some), or undefined (None); the strings it returns are      *)
(* messages as everywhere else.                                            *)
(***************************************************************************)
EmptyString == Msg("", <<>>)

unknownWord == <<"u", "n", "k", "n", "o", "w", "n">>

\* issue.message?.match(/'(.+?)'/): the leftmost quote that is followed, one or
\* more characters other than line breaks later, by a quote; the first group
\* is what lies between it and the nearest such quote
matchQuoted(message) ==
    IF message = None THEN None
    ELSE LET text == message[1]
             closes(i) == {j \in (i + 2)..Len(text) :
                              /\ text[j] = "'"
                              /\ \A k \in (i + 1)..(j - 1) : text[k] # "\n"}
             opens == {i \in 1..Len(text) : text[i] = "'" /\ closes(i) # {}}
         IN  IF opens = {} THEN None
             ELSE LET i == CHOOSE o \in opens : \A other \in opens : o <= other
                      j == CHOOSE c \in closes(i) : \A other \in closes(i) : c <= other
                  IN  Some(SubSeq(text, i + 1, j - 1))

\* a variant of the generator that consults the table of codes first
generateSuggestion_tableFirst(issue) ==
    CASE issue.code = "STRUCTURE_MISSING_DEFINEAPP" ->
            Msg("Add 'export default defineApp({ ... })' to your plugin", <<>>)
      [] issue.code = "STRUCTURE_ACTIONS_EMPTY" ->
            Msg("Add at least one action to the actions array: actions: [defineAction({ name: \"Example\", key: \"example\", run: () => {} })]", <<>>)
      [] OTHER ->
            IF issue.suggestion # None /\ issue.suggestion[1] # EmptyString
            THEN issue.suggestion[1]
            ELSE EmptyString

generateSuggestion(issue) ==
    IF issue.suggestion # None /\ issue.suggestion[1] # EmptyString
    THEN issue.suggestion[1]
    ELSE CASE issue.code = "STRUCTURE_MISSING_DEFINEAPP" ->
                 Msg("Add 'export default defineApp({ ... })' to your plugin", <<>>)
           [] issue.code = "STRUCTURE_MISSING_PROPERTY" ->
                 IF issue.component # None
                 THEN LET match == matchQuoted(issue.message)
                          missingProp == IF match = None THEN unknownWord ELSE match[1]
                      IN  Msg("Add the '%' property to your % definition",
                              <<missingProp, issue.component[1]>>)
                 ELSE EmptyString
           [] issue.code = "STRUCTURE_DEFINEAPP_NO_ARGS" ->
                 Msg("Change to 'export default defineApp({ name: \"Your Plugin\", key: \"your-plugin\", actions: [] })'", <<>>)
           [] issue.code = "STRUCTURE_ACTIONS_EMPTY" ->
                 Msg("Add at least one action to the actions array: actions: [defineAction({ name: \"Example\", key: \"example\", run: () => {} })]", <<>>)
           [] issue.code = "STRUCTURE_ACTION_MISSING_IMPLEMENTATION" ->
                 Msg("Add a run function to implement your action: run: async ({ auth }) => { return { data: {} }; }", <<>>)
           [] OTHER -> EmptyString

(***************************************************************************)
(* plugin-validator: the two entry points.  A call is recorded as what it  *)
(* did: returned or threw, its result, its locals, the validators it ran.  *)
(***************************************************************************)
Execution(outcome_, result_, structure_, compiler_, invoked_) ==
    [outcome |-> outcome_, result |-> result_, structureResult |-> structure_,
     compilerResult |-> compiler_, invoked |-> invoked_]

Returned(result_, invoked_) == Execution("returned", result_, None, None, invoked_)

ReturnedRun(run) == Returned(run.result, run.invoked)

\* a variant of the combination that lists the compiler's issues first
CombineResults_compilerFirst(structure_, compiler_) ==
    ValidationResult(structure_.isValid /\ compiler_.isValid,
                     compiler_.issues \o structure_.issues)

\* allIssues and overallIsValid
CombineResults(structure_, compiler_) ==
    ValidationResult(structure_.isValid /\ compiler_.isValid,
                     structure_.issues \o compiler_.issues)

\* the statements after both validators have returned
AfterCompiler(structure_, compiler_) ==
    Execution("returned", CombineResults(structure_.result, compiler_),
              Some(structure_.result), Some(compiler_),
              <<"validateWithTsAST">> \o structure_.invoked \o <<"validateWithTsCompiler">>)

\* the statements after the gate, the structural validator having returned
AfterStructure(structure_, text, host) ==
    IF compilerThrows(host)
    THEN Execution("threw", NoResult, Some(structure_.result), None,
                   <<"validateWithTsAST">> \o structure_.invoked \o <<"validateWithTsCompiler">>)
    ELSE AfterCompiler(structure_, validateWithTsCompiler(text, host))

validateGeneratedPluginCode(text, opts, host) ==
    IF ~looksLikeCode(text) THEN Returned(NotCodeResult, <<>>)
    ELSE AfterStructure(validateWithTsAST(text, opts, host), text, host)

\* a variant of the deprecated entry point without the cheap gate
validateWithRegex_ungated(text) ==
    Returned(validateStructureWithRegex(text), <<"validateStructureWithRegex">>)

validateWithRegex(text) ==
    IF ~looksLikeCode(text) THEN Returned(NotCodeResult, <<>>)
    ELSE Returned(validateStructureWithRegex(text), <<"validateStructureWithRegex">>)

(***************************************************************************)
(* The state machine                                                       *)
(***************************************************************************)
\* a variant of the call that leaves a mark in the registry: once a validator
\* has run, the auth block counts as required
Record_marking(name, exec) ==
    /\ call = "none"
    /\ call' = name
    /\ outcome' = exec.outcome
    /\ result' = exec.result
    /\ structureResult' = exec.structureResult
    /\ compilerResult' = exec.compilerResult
    /\ invoked' = exec.invoked
    /\ history' = Append(history, [text |-> pluginCode, function |-> name,
                                    outcome |-> exec.outcome, issues |-> exec.result.issues])
    /\ registry' = [registry EXCEPT ![PluginComponent_AUTH].required = TRUE]
    /\ UNCHANGED <<pluginCode, options, tsHost, suggestions>>

\* the caller hands its candidate to one entry point and keeps what comes back
Record(name, exec) ==
    /\ call = "none"
    /\ call' = name
    /\ outcome' = exec.outcome
    /\ result' = exec.result
    /\ structureResult' = exec.structureResult
    /\ compilerResult' = exec.compilerResult
    /\ invoked' = exec.invoked
    /\ history' = Append(history, [text |-> pluginCode, function |-> name,
                                    outcome |-> exec.outcome, issues |-> exec.result.issues])
    /\ UNCHANGED <<pluginCode, options, tsHost, registry, suggestions>>

Call_validateGeneratedPluginCode ==
    Record("validateGeneratedPluginCode",
           validateGeneratedPluginCode(pluginCode, options, tsHost))

Call_validateWithRegex ==
    Record("validateWithRegex", validateWithRegex(pluginCode))

Call_validateWithTsAST ==
    Record("validateWithTsAST", ReturnedRun(validateWithTsAST(pluginCode, options, tsHost)))

Call_validateWithTsCompiler ==
    Record("validateWithTsCompiler",
           IF compilerThrows(tsHost) THEN Execution("threw", NoResult, None, None, <<>>)
           ELSE Returned(validateWithTsCompiler(pluginCode, tsHost), <<>>))

Call_validateStructureWithRegex ==
    Record("validateStructureWithRegex",
           Returned(validateStructureWithRegex(pluginCode), <<>>))

Next ==
    \/ Call_validateGeneratedPluginCode
    \/ Call_validateWithRegex
    \/ Call_validateWithTsAST
    \/ Call_validateWithTsCompiler
    \/ Call_validateStructureWithRegex

Idle ==
    /\ call = "none"
    /\ outcome = "none"
    /\ result = NoResult
    /\ structureResult = None
    /\ compilerResult = None
    /\ invoked = <<>>
    /\ registry = COMPONENT_STRUCTURES
    /\ history = <<>>
    /\ suggestions = {}

(***************************************************************************)
(* Candidates                                                              *)
(***************************************************************************)
\* a property assignment when the value is given, nothing when it is NoNode
Opt(name, value) == IF Missing(value) THEN <<>> ELSE <<P(name, value)>>

Descriptor(name, key, categories, iconUrl, authDocUrl, supportsConnections, apiBaseUrl, more) ==
    Obj(Opt("name", name) \o Opt("key", key) \o Opt("categories", categories)
        \o Opt("iconUrl", iconUrl) \o Opt("authDocUrl", authDocUrl)
        \o Opt("supportsConnections", supportsConnections)
        \o Opt("apiBaseUrl", apiBaseUrl) \o more)

FullDescriptor(more) ==
    Descriptor(Str("Mail"), Str("mail"), Arr(<<Str("email")>>), Str("https://x.io/icon.svg"),
               Str("https://x.io/docs"), TrueKw, Str("https://api.x.io"), more)

DefineApp(descriptor) == ExportDefault(CallOf("defineApp", <<descriptor>>))

Bodies ==
    {<<>>,
     <<ExportDefault(CallOf("defineApp", <<>>))>>,
     <<ExportDefault(CallOf("defineApp", <<Id("config")>>))>>,
     <<DefineApp(FullDescriptor(<<>>))>>,
     <<DefineApp(FullDescriptor(<<P("actions", Arr(<<>>))>>))>>,
     <<ExportDefault(CallOf("defineApp", <<>>)), DefineApp(FullDescriptor(<<>>))>>,
     <<ExportDefault(MemberCallOf("defineApp", <<FullDescriptor(<<>>)>>))>>,
     <<ExportEquals(CallOf("defineApp", <<FullDescriptor(<<>>)>>))>>}

\* a body after an import, a comment or a sentence, between blank space or
\* followed by the closing words of a chat answer
Texts ==
    {f[1] \o h \o b \o f[2] :
        f \in {<<<<>>, <<>>>>, <<<<Whitespace>>, <<>>>>, <<<<>>, <<Whitespace>>>>,
               <<<<>>, <<Prose("Hope this helps")>>>>},
        h \in {<<>>, <<Import("defineApp")>>, <<Import("axios")>>,
               <<Comment("export default defineApp(")>>, <<Prose("Sure, here it is")>>},
        b \in Bodies}

Diagnostic(category, code, hasFile, start) ==
    [category |-> category, code |-> code, hasFile |-> hasFile, start |-> start,
     messageText |-> "diagnostic"]

Diagnostics ==
    SeqsUpTo({Diagnostic("Error", "2304", TRUE, 9), Diagnostic("Warning", "6133", FALSE, 0)},
             MaxDiagnostics)
    \cup {<<Diagnostic("Message", "80001", TRUE, 3)>>}

Host(parseThrows, programThrows, diagnostics) ==
    [parseThrows |-> parseThrows, parseError |-> "Maximum call stack size exceeded",
     programThrows |-> programThrows, diagnostics |-> diagnostics]

QuietHost == Host(FALSE, FALSE, <<>>)

Hosts == {Host(FALSE, FALSE, d) : d \in Diagnostics}
         \cup {Host(TRUE, FALSE, <<>>), Host(FALSE, TRUE, <<>>)}

Options == {None, Some([strictMode |-> TRUE]), Some([strictMode |-> FALSE])}

Init ==
    /\ pluginCode \in Texts
    /\ options \in Options
    /\ tsHost \in Hosts
    /\ Idle

Spec == Init /\ [][Next]_vars

\* descriptors: each required property absent, well typed or ill typed
DescriptorTexts ==
    {<<DefineApp(Descriptor(name, key, categories, iconUrl, authDocUrl,
                            supportsConnections, apiBaseUrl, more))>> :
        name \in {NoNode, Str("Mail"), Num("5")},
        key \in {NoNode, Str("mail"), Str("my app"), Tpl("my app")},
        categories \in {NoNode, Arr(<<Str("email")>>)},
        iconUrl \in {NoNode, Str("https://x.io/icon.svg")},
        authDocUrl \in {NoNode, Str("https://x.io/docs")},
        supportsConnections \in {NoNode, TrueKw, Str("yes")},
        apiBaseUrl \in {NoNode, Str("https://api.x.io")},
        more \in {<<>>,
                  <<P("description", Str("Sends mail"))>>,
                  <<P("dependsOn", Str("other"))>>,
                  <<PQ("apiBaseUrl", Str("https://api.x.io"))>>,
                  <<P("actions", Arr(<<>>))>>}}

InitDescriptor ==
    /\ pluginCode \in DescriptorTexts
    /\ options = None
    /\ tsHost = QuietHost
    /\ Idle

SpecDescriptor == InitDescriptor /\ [][Next]_vars

\* auth blocks of a descriptor that has its seven required properties
ManualField ==
    Obj(<<P("key", Str("apiKey")), P("label", Str("API key")), P("type", Str("string"))>>)
OAuthField ==
    Obj(<<P("key", Str("oAuthRedirectUrl")), P("label", Str("Redirect URL")),
          P("type", Str("string"))>>)
CookieField ==
    Obj(<<P("key", Str("cookie")), P("label", Str("Cookie")), P("type", Str("string")),
          P("required", TrueKw), P("readOnly", TrueKw), P("clickToCopy", FalseKw)>>)

AuthTexts ==
    {<<DefineApp(FullDescriptor(<<P("auth",
            Obj(Opt("type", type) \o Opt("fields", fields)
                \o Opt("verifyCredentials", verifyCredentials)
                \o Opt("isStillVerified", isStillVerified) \o more))>>))>> :
        type \in {NoNode, Str("manual"), Str("oauth"), Str("OAuth"), Str("cookies")},
        fields \in {NoNode, Str("none"), Arr(<<>>), Arr(<<ManualField>>), Arr(<<OAuthField>>),
                    Arr(<<CookieField>>), Arr(<<ManualField, ManualField>>)},
        verifyCredentials \in {NoNode, Arrow(TRUE, 1)},
        isStillVerified \in {NoNode, Arrow(TRUE, 1)},
        more \in {<<>>, <<PQ("", Str("x"))>>}}

InitAuth ==
    /\ pluginCode \in AuthTexts
    /\ options = None
    /\ tsHost = QuietHost
    /\ Idle

SpecAuth == InitAuth /\ [][Next]_vars

\* an input field of an action or a trigger, with its four required properties
ArgumentField(more) ==
    Obj(<<P("label", Str("To")), P("key", Str("to")), P("type", Str("string")),
          P("required", TrueKw)>> \o more)

\* dependsOn: ["a", "a"]
RepeatedDependsOn == P("dependsOn", Arr(<<Str("a"), Str("a")>>))

\* descriptors whose values are expressions (a reference, a call, a member
\* access) where the template of the generator writes literals
ExpressionTexts ==
    {<<DefineApp(Descriptor(name, Str("mail"), Arr(<<Str("email")>>),
                            Str("https://x.io/icon.svg"), Str("https://x.io/docs"),
                            supportsConnections, Str("https://api.x.io"), more))>> :
        name \in {Str("Mail"), Id("pluginName"), CallOf("getName", <<>>),
                  Node("PropertyAccessExpression", "config.name", <<>>, <<>>)},
        supportsConnections \in {TrueKw, Id("flag")},
        more \in {<<>>, <<P("auth", Id("auth"))>>, <<P("actions", Id("actions"))>>,
                  <<P("triggers", Id("triggers"))>>}}

\* one action, written as an object literal or handed to defineAction
ActionTexts ==
    {<<DefineApp(FullDescriptor(<<P("actions", Arr(<<
            LET config == Obj(Opt("key", key) \o Opt("name", name)
                              \o <<P("mode", Str("sync"))>>
                              \o Opt("description", description) \o Opt("run", run) \o more)
            IN  IF wrapped THEN CallOf("defineAction", <<config>>) ELSE config>>))>>))>> :
        key \in {NoNode, Str("send"), Str("send  mail"), Id("actionKey")},
        name \in {Str("Send"), Id("actionName")},
        description \in {NoNode, Str("Sends a mail")},
        run \in {NoNode, Arrow(TRUE, 1), Arrow(FALSE, 0)},
        more \in {<<>>,
                  <<P("arguments", Arr(<<ArgumentField(<<>>)>>))>>,
                  <<P("arguments", Arr(<<ArgumentField(<<RepeatedDependsOn>>)>>))>>,
                  <<RepeatedDependsOn>>},
        wrapped \in BOOLEAN}

\* one trigger, written as an object literal or handed to defineTrigger
TriggerTexts ==
    {<<DefineApp(FullDescriptor(<<P("triggers", Arr(<<
            LET config == Obj(Opt("name", name) \o Opt("key", key) \o Opt("type", type)
                              \o Opt("description", description)
                              \o Opt("pollInterval", pollInterval) \o Opt("run", run) \o more)
            IN  IF wrapped THEN CallOf("defineTrigger", <<config>>) ELSE config>>))>>))>> :
        name \in {NoNode, Str("New mail"), Id("triggerName")},
        key \in {NoNode, Str("newMail")},
        type \in {NoNode, Str("polling"), Str("webhook"), Str("Polling"), Str("cron"),
                  Id("kind")},
        description \in {NoNode, Str("Fires on new mail")},
        pollInterval \in {NoNode, Num("15"), Str("15")},
        run \in {NoNode, Arrow(TRUE, 1), Id("poll")},
        more \in {<<>>, <<P("arguments", Arr(<<ArgumentField(<<RepeatedDependsOn>>)>>))>>},
        wrapped \in BOOLEAN}

\* one element of dynamicFields or one provider of dynamicData
DynamicTexts ==
    {<<DefineApp(FullDescriptor(<<P(property,
            Arr(<<Obj(Opt("name", name) \o Opt("key", key) \o Opt("run", run))>>))>>))>> :
        property \in {"dynamicFields", "dynamicData"},
        name \in {NoNode, Str("Folders")},
        key \in {NoNode, Str("listFolders")},
        run \in {NoNode, Arrow(TRUE, 1), Str("run")}}

\* the caller, its last call over, turns to a candidate: another or the same again
Submit(text) ==
    /\ call # "none"
    /\ Len(history) < MaxCalls
    /\ pluginCode' = text
    /\ call' = "none"
    /\ outcome' = "none"
    /\ result' = NoResult
    /\ structureResult' = None
    /\ compilerResult' = None
    /\ invoked' = <<>>
    /\ UNCHANGED <<options, tsHost, registry, history, suggestions>>

\* a descriptor without auth and with no action, and an answer that is not code
RepeatTexts ==
    {<<Import("defineApp"), DefineApp(FullDescriptor(<<P("actions", Arr(<<>>))>>))>>,
     <<Prose("Sure, here it is")>>}

NextRepeat ==
    \/ Next
    \/ \E text \in RepeatTexts : Submit(text)

InitRepeat ==
    /\ pluginCode \in RepeatTexts
    /\ options = None
    /\ tsHost \in {QuietHost, Host(FALSE, FALSE, <<Diagnostic("Error", "2304", TRUE, 9)>>)}
    /\ Idle

SpecRepeat == InitRepeat /\ [][NextRepeat]_vars

\* field objects of an auth block: the key, the type and the three flags each
\* absent, as the auth variants want them, or otherwise
FieldObjects ==
    {Obj(Opt("key", key) \o Opt("type", type) \o flags \o more) :
        key \in {NoNode, Str("oAuthRedirectUrl"), Str("cookie"), Id("fieldKey")},
        type \in {NoNode, Str("string"), Str("dropdown"), Str("dynamic"), Id("fieldType")},
        flags \in {<<>>,
                   <<P("label", Str("Cookie"))>>,
                   <<P("label", Str("Cookie")), P("required", TrueKw),
                     P("readOnly", TrueKw), P("clickToCopy", FalseKw)>>,
                   <<P("label", Str("Cookie")), P("required", FalseKw),
                     P("readOnly", TrueKw), P("clickToCopy", FalseKw)>>,
                   <<P("label", Str("Cookie")), P("required", TrueKw),
                     P("readOnly", Str("true")), P("clickToCopy", FalseKw)>>,
                   <<P("label", Str("Cookie")), P("required", TrueKw),
                     P("readOnly", TrueKw), P("clickToCopy", TrueKw)>>,
                   <<P("required", Id("isRequired")), P("clickToCopy", FalseKw)>>},
        more \in {<<>>,
                  <<RepeatedDependsOn>>,
                  <<P("options", Arr(<<Obj(<<P("label", Str("One"))>>)>>))>>,
                  <<P("options", Arr(<<Obj(<<P("label", Str("One")), P("value", Num("1"))>>)>>))>>,
                  <<P("fields", Arr(<<>>))>>}}

\* auth blocks with both functions, over the shapes of `fields`
FieldTexts ==
    {<<DefineApp(FullDescriptor(<<P("auth",
            Obj(<<P("type", type)>> \o Opt("fields", fields)
                \o <<P("verifyCredentials", Arrow(TRUE, 1)),
                     P("isStillVerified", Arrow(TRUE, 1))>>))>>))>> :
        type \in {Str("manual"), Str("oauth"), Str("OAUTH"), Str("cookies"), Str("custom"),
                  Id("authType")},
        fields \in {NoNode, Id("fields"), Arr(<<>>), Arr(<<Str("cookie")>>),
                    Arr(<<OAuthField, OAuthField>>), Arr(<<CookieField, Str("cookie")>>)}
                   \cup {Arr(<<field>>) : field \in FieldObjects}}

InitFields ==
    /\ pluginCode \in FieldTexts
    /\ options = None
    /\ tsHost = QuietHost
    /\ Idle

SpecFields == InitFields /\ [][Next]_vars

InitComponents ==
    /\ pluginCode \in ExpressionTexts \cup ActionTexts \cup TriggerTexts \cup DynamicTexts
    /\ options = None
    /\ tsHost = QuietHost
    /\ Idle

SpecComponents == InitComponents /\ [][Next]_vars

\* an action otherwise complete, its implementation absent, a function, a value
\* that is no function, or a method; written bare or handed to defineAction
Implementations ==
    {<<>>,
     <<P("run", Arrow(TRUE, 1))>>,
     <<P("run", FnExpr(TRUE, 1))>>,
     <<P("run", Num("5"))>>,
     <<P("run", Str("x"))>>,
     <<P("handler", Arrow(TRUE, 1))>>,
     <<P("handler", Num("5"))>>,
     <<P("run", Num("5")), P("handler", Arrow(TRUE, 1))>>,
     <<PQ("run", Arrow(TRUE, 1))>>,
     <<Method("run")>>}

ImplementationTexts ==
    {<<DefineApp(FullDescriptor(<<P("actions", Arr(<<
            LET config == Obj(<<P("key", Str("send")), P("name", Str("Send")),
                                P("mode", Str("sync")),
                                P("description", Str("Sends a mail"))>> \o implementation)
            IN  IF wrapped THEN CallOf("defineAction", <<config>>) ELSE config>>))>>))>> :
        implementation \in Implementations,
        wrapped \in BOOLEAN}

\* an action and a trigger that lack only their description, so that the
\* validation of their properties leaves its mark
ActionConfig ==
    Obj(<<P("key", Str("send")), P("name", Str("Send")), P("mode", Str("sync")),
          P("run", Arrow(TRUE, 1))>>)

TriggerConfig ==
    Obj(<<P("name", Str("New mail")), P("key", Str("newMail")), P("type", Str("webhook")),
          P("run", Arrow(TRUE, 1))>>)

\* what an element of the actions or triggers array can be
ElementShapes(builder, config) ==
    {config,
     CallOf(builder, <<config>>),
     CallOf(builder, <<>>),
     CallOf(builder, <<Str("send")>>),
     CallOf(builder, <<Id("config")>>),
     CallOf(builder, <<config, Str("extra")>>),
     CallOf(builder, <<Str("send"), config>>),
     MemberCallOf(builder, <<config>>),
     CallOf("define", <<config>>),
     Id("send"),
     Str("send"),
     Arr(<<config>>)}

\* arrays of one or two elements of those shapes
ElementTexts ==
    LET arrays(shapes) == {<<e>> : e \in shapes} \cup {<<e, f>> : e \in shapes, f \in shapes}
    IN  {<<DefineApp(FullDescriptor(<<P("actions", Arr(es))>>))>> :
            es \in arrays(ElementShapes("defineAction", ActionConfig))}
        \cup {<<DefineApp(FullDescriptor(<<P("triggers", Arr(es))>>))>> :
            es \in arrays(ElementShapes("defineTrigger", TriggerConfig))}

\* what can be written for dependsOn: values that are no array, arrays of up to
\* three elements, the key quoted, the key written twice
DependsOnElements == {Str("a"), Str("b"), Tpl("a"), Num("1"), Id("x")}

DependsOnMembers ==
    {<<P("dependsOn", v)>> : v \in {Str("a"), Num("1"), Id("deps"), Obj(<<>>)}}
    \cup {<<P("dependsOn", Arr(es))>> : es \in SeqsUpTo(DependsOnElements, 3)}
    \cup {<<PQ("dependsOn", v)>> : v \in {Str("a"), Arr(<<>>), Arr(<<Str("a"), Str("a")>>)}}
    \cup {<<P("dependsOn", Arr(<<Str("a"), Str("a")>>)), P("dependsOn", Str("a"))>>,
          <<P("dependsOn", Str("a")), P("dependsOn", Arr(<<Str("a"), Str("a")>>))>>}

\* the descriptor, an action, the auth object or a trigger carrying them
DependsOnTexts ==
    {<<DefineApp(FullDescriptor(members))>> : members \in DependsOnMembers}
    \cup {<<DefineApp(FullDescriptor(<<P("actions", Arr(<<
              Obj(ActionConfig.props \o members)>>))>>))>> : members \in DependsOnMembers}
    \cup {<<DefineApp(FullDescriptor(<<P("auth",
              Obj(<<P("type", Str("manual")), P("fields", Arr(<<ManualField>>)),
                    P("verifyCredentials", Arrow(TRUE, 1)),
                    P("isStillVerified", Arrow(TRUE, 1))>> \o members))>>))>> :
              members \in DependsOnMembers}
    \cup {<<DefineApp(FullDescriptor(<<P("triggers", Arr(<<
              Obj(TriggerConfig.props \o members)>>))>>))>> : members \in DependsOnMembers}

\* descriptors in which a key is quoted or written twice with different values
LookupMembers ==
    {<<PQ("name", Str("Mail"))>>,
     <<PQ("name", Num("5"))>>,
     <<P("name", Num("5")), P("name", Str("Mail"))>>,
     <<P("name", Str("Mail")), P("name", Num("5"))>>,
     <<PQ("actions", Str("none"))>>,
     <<PQ("actions", Arr(<<>>))>>,
     <<P("actions", Str("none")), P("actions", Arr(<<>>))>>,
     <<P("actions", Arr(<<>>)), P("actions", Str("none"))>>,
     <<PQ("auth", Str("none"))>>,
     <<P("auth", Str("none")), P("auth", Obj(<<>>))>>,
     <<P("auth", Obj(<<>>)), P("auth", Str("none"))>>,
     <<PQ("triggers", Str("none"))>>,
     <<P("triggers", Str("none")), P("triggers", Arr(<<>>))>>,
     <<P("triggers", Arr(<<>>)), P("triggers", Str("none"))>>}

LookupTexts ==
    {<<DefineApp(Obj(Descriptor(NoNode, Str("mail"), Arr(<<Str("email")>>),
                                Str("https://x.io/icon.svg"), Str("https://x.io/docs"),
                                TrueKw, Str("https://api.x.io"), <<>>).props \o members))>> :
        members \in LookupMembers}

\* descriptors in which an object other than the configuration object has a
\* property `actions`: the auth object, the value of settings, an action, a
\* trigger, an argument of an action
NestedTexts ==
    {<<DefineApp(FullDescriptor(members))>> :
        members \in
            {<<P("auth", Obj(<<P("type", Str("manual")), P("fields", Arr(<<ManualField>>)),
                               P("verifyCredentials", Arrow(TRUE, 1)),
                               P("isStillVerified", Arrow(TRUE, 1)),
                               P("actions", Arr(<<>>))>>))>>,
             <<P("settings", Obj(<<P("actions", Arr(<<ActionConfig>>))>>))>>,
             <<P("settings", Obj(<<PQ("actions", Str("none"))>>)), P("actions", Arr(<<>>))>>,
             <<P("actions", Arr(<<Obj(ActionConfig.props \o <<P("actions", Arr(<<>>))>>)>>))>>,
             <<P("actions", Arr(<<CallOf("defineAction",
                    <<Obj(ActionConfig.props \o <<P("actions", Arr(<<>>))>>)>>)>>))>>,
             <<P("actions", Arr(<<Obj(ActionConfig.props \o <<P("arguments",
                    Arr(<<ArgumentField(<<P("actions", Arr(<<>>))>>)>>))>>)>>))>>,
             <<P("triggers", Arr(<<Obj(TriggerConfig.props \o <<P("actions", Arr(<<>>))>>)>>))>>}}

\* auth objects whose verifyCredentials and isStillVerified are methods, as the
\* template of the generator writes them, or functions assigned to the names
MethodTexts ==
    {<<DefineApp(FullDescriptor(<<P("auth",
            Obj(<<P("type", Str(type)), P("fields", Arr(<<field>>))>> \o members))>>))>> :
        type \in {"manual", "cookies"},
        field \in {ManualField, CookieField},
        members \in {<<Method("verifyCredentials"), Method("isStillVerified")>>,
                     <<Method("verifyCredentials"), P("isStillVerified", Arrow(TRUE, 1))>>,
                     <<P("verifyCredentials", Arrow(TRUE, 1)), P("isStillVerified", Arrow(TRUE, 1))>>,
                     <<Method("verifyCredentials")>>}}

\* the key of the descriptor and the key of an action: without white space,
\* with a space, two spaces, a tab, a line break, a space and a tab, a leading
\* space; a template literal; a reference
Keys ==
    {Str("mail"), Str("my app"), Str("send  mail"), Str("my\tapp"), Str("send\nmail"),
     Str("my \tapp"), Str(" mail"), Tpl("my app"), Id("appKey")}

KeyTexts ==
    {<<DefineApp(Descriptor(Str("Mail"), key, Arr(<<Str("email")>>),
                            Str("https://x.io/icon.svg"), Str("https://x.io/docs"),
                            TrueKw, Str("https://api.x.io"), <<>>))>> : key \in Keys}
    \cup {<<DefineApp(FullDescriptor(<<P("actions", Arr(<<
              [ActionConfig EXCEPT !.props[1] = P("key", key)]>>))>>))>> : key \in Keys}

InitShapes ==
    /\ pluginCode \in ImplementationTexts \cup ElementTexts \cup DependsOnTexts
                       \cup LookupTexts \cup NestedTexts \cup MethodTexts
                       \cup KeyTexts
    /\ options = None
    /\ tsHost = QuietHost
    /\ Idle

SpecShapes == InitShapes /\ [][Next]_vars

\* the issues a caller hands to generateSuggestion: each code of its table and
\* one it does not list; the message undefined, with a quoted word, with none,
\* with an empty pair of quotes before a quoted word; the component and the
\* embedded suggestion undefined or given, the suggestion also empty
SuggestionIssues ==
    {Issue(ERROR, message, code, None, component, suggestion) :
        code \in {"STRUCTURE_MISSING_DEFINEAPP", "STRUCTURE_MISSING_PROPERTY",
                  "STRUCTURE_DEFINEAPP_NO_ARGS", "STRUCTURE_ACTIONS_EMPTY",
                  "STRUCTURE_ACTION_MISSING_IMPLEMENTATION", "STRUCTURE_INVALID_KEY"},
        message \in {None, Some(<<"n", "o", " ", "'", "k", "'", " ", "'", "x", "'">>),
                     Some(<<"n", "o", " ", "k">>), Some(<<"'", "'", "k", "'">>)},
        component \in {None, Some(PluginComponent_DEFINE_APP)},
        suggestion \in {None, Some(EmptyString), Some(Msg("Rename it", <<>>))}}

\* the presentation layer asks for the suggestion of one issue and keeps it
Call_generateSuggestion(issue) ==
    /\ Cardinality(suggestions) < MaxAsked
    /\ suggestions' = suggestions \cup
           {[issue |-> issue, returned |-> generateSuggestion(issue)]}
    /\ UNCHANGED <<pluginCode, options, tsHost, call, outcome, result,
                   structureResult, compilerResult, invoked, registry, history>>

NextSuggestion == \E issue \in SuggestionIssues : Call_generateSuggestion(issue)

InitSuggestion ==
    /\ pluginCode = <<Prose("Sure, here it is")>>
    /\ options = None
    /\ tsHost = QuietHost
    /\ Idle

SpecSuggestion == InitSuggestion /\ [][NextSuggestion]_vars

(***************************************************************************)
(* Properties                                                              *)
(***************************************************************************)
\* C1: every result returned by validateGeneratedPluginCode, validateWithRegex,
\* validateWithTsAST, validateWithTsCompiler or validateStructureWithRegex has
\* isValid true exactly when its issues hold no issue of severity Error.
C1_ValidIffNoError ==
    outcome = "returned" =>
        (result.isValid <=> \A i \in 1..Len(result.issues) : result.issues[i].severity # ERROR)

\* a structural result that stays valid although it carries a Warning
C1_Witness ==
    /\ call = "validateWithTsAST"
    /\ outcome = "returned"
    /\ result.isValid
    /\ \E i \in 1..Len(result.issues) : result.issues[i].severity = WARNING

\* C2: for a text that passes the cheap gate, what validateGeneratedPluginCode
\* returns has isValid = structural isValid AND compiler isValid, and as issues the
\* structural issues followed by the compiler's, nothing added, dropped or reordered.
C2_Combination ==
    (call = "validateGeneratedPluginCode" /\ looksLikeCode(pluginCode) /\ outcome = "returned") =>
        LET s == validateWithTsAST(pluginCode, options, tsHost).result
            c == validateWithTsCompiler(pluginCode, tsHost)
        IN  /\ result.isValid = (s.isValid /\ c.isValid)
            /\ result.issues = s.issues \o c.issues

\* a valid structural result with issues combined with a failing compiler result
C2_Witness ==
    /\ call = "validateGeneratedPluginCode"
    /\ outcome = "returned"
    /\ structureResult # None /\ compilerResult # None
    /\ structureResult[1].isValid /\ structureResult[1].issues # <<>>
    /\ ~compilerResult[1].isValid /\ Len(compilerResult[1].issues) > 1
    /\ ~result.isValid

\* C3: for a text whose trimmed form neither starts with 'import' nor contains
\* 'defineApp', validateGeneratedPluginCode and validateWithRegex both return exactly
\* isValid false with one Error of code VALIDATION_NOT_CODE, and run no structural,
\* compiler or prefilter check.
C3_Gate ==
    LET trimmedCode == trim(pluginCode)
    IN  (/\ call \in {"validateGeneratedPluginCode", "validateWithRegex"}
         /\ ~startsWithImport(trimmedCode)
         /\ ~includesDefineApp(trimmedCode)) =>
            /\ outcome = "returned"
            /\ result.isValid = FALSE
            /\ Len(result.issues) = 1
            /\ result.issues[1].severity = ERROR
            /\ result.issues[1].code = "VALIDATION_NOT_CODE"
            /\ invoked = <<>>
            /\ structureResult = None /\ compilerResult = None

\* words between blank space, refused by the deprecated entry point
C3_Witness ==
    /\ call = "validateWithRegex"
    /\ Len(pluginCode) > 1
    /\ \E i \in 1..Len(pluginCode) : pluginCode[i].c = "prose"
    /\ ~looksLikeCode(pluginCode)
    /\ result = NotCodeResult
    /\ invoked = <<>>

\* C4: validateGeneratedPluginCode never propagates an exception: when the
\* compiler adapter throws, it still returns a result with isValid false that holds
\* the structural issues and one Error standing for the failure.
C4_NeverPropagates ==
    call = "validateGeneratedPluginCode" =>
        /\ outcome = "returned"
        /\ (looksLikeCode(pluginCode) /\ compilerThrows(tsHost)) =>
              LET s == validateWithTsAST(pluginCode, options, tsHost).result
              IN  /\ ~result.isValid
                  /\ Len(result.issues) = Len(s.issues) + 1
                  /\ SubSeq(result.issues, 1, Len(s.issues)) = s.issues
                  /\ result.issues[Len(result.issues)].severity = ERROR

\* the adapter throws after the structural validator has returned its result
C4_Witness ==
    /\ call = "validateGeneratedPluginCode"
    /\ outcome = "threw"
    /\ structureResult # None
    /\ invoked[Len(invoked)] = "validateWithTsCompiler"

\* C5: in validateWithTsAST a thrown parse exception and a tree carrying a
\* syntax-error mark are treated alike: the result holds exactly one Error of code
\* STRUCTURE_PARSE_ERROR and no issue of a later structural check.
C5_ParseErrorAlike ==
    (/\ call = "validateWithTsAST"
     /\ (tsHost.parseThrows \/ createSourceFile(pluginCode).parseDiagnostics > 0)) =>
        /\ Len(result.issues) = 1
        /\ result.issues[1].severity = ERROR
        /\ result.issues[1].code = "STRUCTURE_PARSE_ERROR"
        /\ invoked = <<"createSourceFile">>

\* an error-marked tree on which the descriptor was looked for and validated
C5_Witness ==
    /\ call = "validateWithTsAST"
    /\ ~tsHost.parseThrows
    /\ createSourceFile(pluginCode).parseDiagnostics > 0
    /\ \E i \in 1..Len(invoked) : invoked[i] = "validateDefineAppStructure"
    /\ \A i \in 1..Len(result.issues) : result.issues[i].code # "STRUCTURE_PARSE_ERROR"

\* C6: in validateWithTsAST each early exit yields exactly one Error and nothing
\* else: STRUCTURE_MISSING_DEFINEAPP when no default-exported call to the identifier
\* defineApp exists, STRUCTURE_DEFINEAPP_NO_ARGS when that call has no argument,
\* STRUCTURE_DEFINEAPP_NOT_OBJECT when its first argument is not an object literal;
\* no sub-component validator runs.
C6_EarlyExits ==
    LET isExport(ch) == /\ ch.c = "exportDefault"
                        /\ ch.expr.kind = "CallExpression"
                        /\ ch.expr.calleeKind = "Identifier"
                        /\ ch.expr.text = "defineApp"
        exports == {i \in 1..Len(pluginCode) : isExport(pluginCode[i])}
        theCall == pluginCode[CHOOSE i \in exports : TRUE].expr
        expected ==
            IF exports = {} THEN "STRUCTURE_MISSING_DEFINEAPP"
            ELSE IF Len(theCall.elems) = 0 THEN "STRUCTURE_DEFINEAPP_NO_ARGS"
            ELSE IF theCall.elems[1].kind # "ObjectLiteralExpression"
                 THEN "STRUCTURE_DEFINEAPP_NOT_OBJECT"
            ELSE "none"
    IN  (/\ call = "validateWithTsAST"
         /\ ~tsHost.parseThrows
         /\ Cardinality(exports) <= 1
         /\ expected # "none") =>
            /\ Len(result.issues) = 1
            /\ result.issues[1].severity = ERROR
            /\ result.issues[1].code = expected
            /\ ~result.isValid
            /\ \A i \in 1..Len(invoked) :
                  invoked[i] \notin {"validateActionsStructure", "validateAuthStructure",
                                     "validateTriggersStructure"}

\* defineApp(config): the argument is an identifier, not an object literal
C6_Witness ==
    /\ call = "validateWithTsAST"
    /\ \E i \in 1..Len(pluginCode) :
          /\ pluginCode[i].c = "exportDefault"
          /\ pluginCode[i].expr.kind = "CallExpression"
          /\ Len(pluginCode[i].expr.elems) = 1
          /\ pluginCode[i].expr.elems[1].kind = "Identifier"
    /\ Len(result.issues) = 1
    /\ result.issues[1].code = "STRUCTURE_DEFINEAPP_NOT_OBJECT"

\* C7: for a descriptor configuration object, the number of
\* STRUCTURE_MISSING_PROPERTY issues equals the number of names among name, key,
\* categories, iconUrl, authDocUrl, supportsConnections, apiBaseUrl absent from its
\* property map; each is an Error of component defineApp whose suggestion names the
\* property.
C7_MissingProperties ==
    LET required == {"name", "key", "categories", "iconUrl", "authDocUrl",
                     "supportsConnections", "apiBaseUrl"}
        config == pluginCode[1].expr.elems[1]
        present(nm) == \E i \in 1..Len(config.props) :
                          /\ config.props[i].kind = "PropertyAssignment"
                          /\ config.props[i].name = nm
        absent == {nm \in required : ~present(nm)}
        hits == {i \in 1..Len(result.issues) :
                    result.issues[i].code = "STRUCTURE_MISSING_PROPERTY"}
    IN  (call = "validateWithTsAST" /\ pluginCode \in DescriptorTexts) =>
            /\ Cardinality(hits) = Cardinality(absent)
            /\ \A i \in hits :
                  /\ result.issues[i].severity = ERROR
                  /\ result.issues[i].component = Some(PluginComponent_DEFINE_APP)
                  /\ result.issues[i].suggestion # None
                  /\ \E nm \in absent : result.issues[i].suggestion[1].args = <<nm>>
            /\ \A nm \in absent :
                  \E i \in hits : result.issues[i].suggestion[1].args = <<nm>>

\* a descriptor missing only apiBaseUrl: exactly one such Error
C7_Witness ==
    LET config == pluginCode[1].expr.elems[1]
        names == {config.props[i].name : i \in 1..Len(config.props)}
    IN  /\ call = "validateWithTsAST"
        /\ pluginCode \in DescriptorTexts
        /\ names = {"name", "key", "categories", "iconUrl", "authDocUrl", "supportsConnections"}
        /\ Cardinality({i \in 1..Len(result.issues) :
                           result.issues[i].code = "STRUCTURE_MISSING_PROPERTY"}) = 1

\* C8, as stated: a descriptor call whose configuration carries all seven required
\* properties with correctly typed literal values and has no auth, actions or
\* triggers property yields a structural result with isValid true and no Error.
C8_CompliantDescriptor ==
    LET config == pluginCode[1].expr.elems[1]
        kinds(nm) == {config.props[i].init.kind :
                         i \in {j \in 1..Len(config.props) : config.props[j].name = nm}}
        string == {"StringLiteral", "NoSubstitutionTemplateLiteral"}
        typed(nm, allowed) == kinds(nm) # {} /\ kinds(nm) \subseteq allowed
    IN  (/\ call = "validateWithTsAST"
         /\ pluginCode \in DescriptorTexts
         /\ typed("name", string) /\ typed("key", string)
         /\ typed("categories", {"ArrayLiteralExpression"})
         /\ typed("iconUrl", string) /\ typed("authDocUrl", string)
         /\ typed("supportsConnections", {"TrueKeyword", "FalseKeyword"})
         /\ typed("apiBaseUrl", string)
         /\ kinds("auth") = {} /\ kinds("actions") = {} /\ kinds("triggers") = {}) =>
            /\ result.isValid
            /\ \A i \in 1..Len(result.issues) : result.issues[i].severity # ERROR

\* C8, amended: the same, for a configuration whose key, when a quoted string,
\* contains no space and that has no dependsOn property.
C8_CompliantDescriptorAmended ==
    LET config == pluginCode[1].expr.elems[1]
        inits(nm) == {config.props[i].init :
                         i \in {j \in 1..Len(config.props) : config.props[j].name = nm}}
        kinds(nm) == {v.kind : v \in inits(nm)}
        string == {"StringLiteral", "NoSubstitutionTemplateLiteral"}
        typed(nm, allowed) == kinds(nm) # {} /\ kinds(nm) \subseteq allowed
    IN  (/\ call = "validateWithTsAST"
         /\ pluginCode \in DescriptorTexts
         /\ typed("name", string) /\ typed("key", string)
         /\ typed("categories", {"ArrayLiteralExpression"})
         /\ typed("iconUrl", string) /\ typed("authDocUrl", string)
         /\ typed("supportsConnections", {"TrueKeyword", "FalseKeyword"})
         /\ typed("apiBaseUrl", string)
         /\ kinds("auth") = {} /\ kinds("actions") = {} /\ kinds("triggers") = {}
         /\ \A v \in inits("key") : v.kind = "StringLiteral" => ~includesSpace(v.text)
         /\ kinds("dependsOn") = {}) =>
            /\ result.isValid
            /\ \A i \in 1..Len(result.issues) : result.issues[i].severity # ERROR

\* a complete descriptor with a template-literal key and a description: valid,
\* with Warnings only
C8_Witness ==
    LET config == pluginCode[1].expr.elems[1]
        names == {config.props[i].name : i \in 1..Len(config.props)}
    IN  /\ call = "validateWithTsAST"
        /\ pluginCode \in DescriptorTexts
        /\ names = {"name", "key", "categories", "iconUrl", "authDocUrl",
                    "supportsConnections", "apiBaseUrl", "description"}
        /\ \A i \in 1..Len(config.props) :
              /\ config.props[i].name = "key" => config.props[i].init.kind = "NoSubstitutionTemplateLiteral"
              /\ config.props[i].name = "name" => config.props[i].init.kind = "StringLiteral"
              /\ config.props[i].name = "supportsConnections" => config.props[i].init.kind = "TrueKeyword"
        /\ result.isValid
        /\ result.issues # <<>>

\* C9: an auth object literal that meets every stated requirement of its type
\* (manual: non-empty fields of objects with key, label, type, plus verifyCredentials
\* and isStillVerified; oauth: the four properties and exactly one field object whose
\* key is "oAuthRedirectUrl"; cookies: the four properties and one fully specified
\* field object) gets no Error from the auth validator and leaves the plugin valid.
C9_CompliantAuth ==
    LET config == pluginCode[1].expr.elems[1]
        member(obj, nm) == {i \in 1..Len(obj.props) : obj.props[i].name = nm}
        has(obj, nm) == member(obj, nm) # {}
        val(obj, nm) == obj.props[CHOOSE i \in member(obj, nm) : TRUE].init
        auth == val(config, "auth")
        type == val(auth, "type").text
        fields == val(auth, "fields")
        field == fields.elems[1]
        isStr(obj, nm, t) == has(obj, nm) /\ val(obj, nm).kind = "StringLiteral" /\ val(obj, nm).text = t
        isKind(obj, nm, k) == has(obj, nm) /\ val(obj, nm).kind = k
        common == /\ has(auth, "type") /\ val(auth, "type").kind = "StringLiteral"
                  /\ has(auth, "fields") /\ fields.kind = "ArrayLiteralExpression"
                  /\ has(auth, "verifyCredentials") /\ has(auth, "isStillVerified")
        manual == /\ type = "manual"
                  /\ Len(fields.elems) > 0
                  /\ \A i \in 1..Len(fields.elems) :
                        /\ fields.elems[i].kind = "ObjectLiteralExpression"
                        /\ has(fields.elems[i], "key") /\ has(fields.elems[i], "label")
                        /\ has(fields.elems[i], "type")
        oauth == /\ type = "oauth"
                 /\ Len(fields.elems) = 1
                 /\ field.kind = "ObjectLiteralExpression"
                 /\ isStr(field, "key", "oAuthRedirectUrl")
        cookies == /\ type = "cookies"
                   /\ Len(fields.elems) = 1
                   /\ field.kind = "ObjectLiteralExpression"
                   /\ has(field, "key") /\ has(field, "label")
                   /\ isStr(field, "type", "string")
                   /\ isKind(field, "required", "TrueKeyword")
                   /\ isKind(field, "readOnly", "TrueKeyword")
                   /\ isKind(field, "clickToCopy", "FalseKeyword")
    IN  (/\ call = "validateWithTsAST"
         /\ pluginCode \in AuthTexts
         /\ common
         /\ (manual \/ oauth \/ cookies)) =>
            /\ \A i \in 1..Len(result.issues) :
                  result.issues[i].component = Some(PluginComponent_AUTH)
                     => result.issues[i].severity # ERROR
            /\ result.isValid

\* a manual auth block with its field and both functions, refused for the lack
\* of a property named by the empty string
C9_Witness ==
    /\ call = "validateWithTsAST"
    /\ pluginCode = <<DefineApp(FullDescriptor(<<P("auth",
            Obj(<<P("type", Str("manual")), P("fields", Arr(<<ManualField>>)),
                  P("verifyCredentials", Arrow(TRUE, 1)),
                  P("isStillVerified", Arrow(TRUE, 1))>>))>>))>>
    /\ ~result.isValid
    /\ \E i \in 1..Len(result.issues) :
          /\ result.issues[i].code = "STRUCTURE_AUTH_MISSING_PROPERTY"
          /\ result.issues[i].severity = ERROR
          /\ result.issues[i].message.args = <<"">>
    /\ \A i \in 1..Len(result.issues) :
          result.issues[i].severity = ERROR
             => result.issues[i].code = "STRUCTURE_AUTH_MISSING_PROPERTY"

\* C10: with strictMode true a result that holds a Warning has isValid false;
\* with strictMode false or absent, Warnings leave isValid as the Errors decide it.
C10_StrictMode ==
    LET strict == options # None /\ options[1].strictMode
        has(severity) == \E i \in 1..Len(result.issues) : result.issues[i].severity = severity
    IN  (call \in {"validateGeneratedPluginCode", "validateWithTsAST"} /\ outcome = "returned") =>
            IF strict THEN (has(WARNING) => ~result.isValid)
            ELSE (result.isValid <=> ~has(ERROR))

\* strictMode is true and a result with a Warning is valid all the same
C10_Witness ==
    /\ options = Some([strictMode |-> TRUE])
    /\ call = "validateGeneratedPluginCode"
    /\ outcome = "returned"
    /\ \E i \in 1..Len(result.issues) : result.issues[i].code = "STRUCTURE_ACTIONS_EMPTY"
    /\ result.isValid

(***************************************************************************)
(* Reading a candidate and a result                                        *)
(***************************************************************************)
\* the call of defineApp the structural validator works on, laid out
TheDefineAppNode == findDefineAppNode(createSourceFile(pluginCode))

\* the values of all property assignments below a node
RECURSIVE PropertyValues(_)
PropertyValues(n) ==
    IF Missing(n) THEN {}
    ELSE UNION {PropertyValues(n.elems[i]) : i \in 1..Len(n.elems)}
         \cup UNION {IF Missing(n.props[i].init) THEN {}
                     ELSE {n.props[i].init} \cup PropertyValues(n.props[i].init) :
                        i \in 1..Len(n.props)}

\* the object literals below a node, the node included
RECURSIVE ObjectsBelow(_)
ObjectsBelow(n) ==
    IF Missing(n) THEN {}
    ELSE (IF isObjectLiteralExpression(n) THEN {n} ELSE {})
         \cup UNION {ObjectsBelow(n.elems[i]) : i \in 1..Len(n.elems)}
         \cup UNION {ObjectsBelow(n.props[i].init) : i \in 1..Len(n.props)}

\* the result holds an issue of that code located at that node
IssuedAt(code, node) ==
    \E i \in 1..Len(result.issues) :
        /\ result.issues[i].code = code
        /\ result.issues[i].location = Loc(getNodePosition(node))

\* the number of issues of that code in the result
CountOf(code) == Cardinality({i \in 1..Len(result.issues) : result.issues[i].code = code})

\* the structural validator has run on the candidate and returned
StructureReturned == call = "validateWithTsAST" /\ outcome = "returned"

\* a value the validator cannot evaluate: a reference, a call, a member access
isNonLiteral(v) == v.kind \in {"Identifier", "CallExpression", "PropertyAccessExpression"}

\* C11: no property whose value is a non-literal expression (an identifier, a
\* call, a member access) receives a STRUCTURE_INVALID_TYPE issue, in the
\* descriptor, in an action or in a trigger.
C11_NonLiteralsUnflagged ==
    StructureReturned =>
        \A v \in PropertyValues(TheDefineAppNode) :
            isNonLiteral(v) => ~IssuedAt("STRUCTURE_INVALID_TYPE", v)

\* `name: pluginName` is reported as a property that must be a string
C11_Witness ==
    /\ StructureReturned
    /\ \E v \in PropertyValues(TheDefineAppNode) :
          /\ v.kind = "Identifier" /\ v.text = "pluginName"
          /\ IssuedAt("STRUCTURE_INVALID_TYPE", v)
    /\ ~result.isValid

TheAuthObject ==
    LET authProperty == findPropertyInObjectLiteral(getDefineAppObject(TheDefineAppNode), "auth")
    IN  IF Missing(authProperty) THEN NoNode ELSE authProperty.init

\* every issue of that code in the result is an Error
ErrorsOnly(code) ==
    \A i \in 1..Len(result.issues) :
        result.issues[i].code = code => result.issues[i].severity = ERROR

\* C13: for an auth object whose type literal is oauth in any letter case, the
\* shape of `fields` decides which one of the five oauth field codes appears,
\* once and as an Error: absent, not an array, a count other than one, a single
\* element that is no object, a single object whose key is missing, not a string
\* literal or not "oAuthRedirectUrl"; with the key "oAuthRedirectUrl", none.
C13_OAuthFields ==
    LET properties == extractObjectProperties(TheAuthObject)
        type == Get(properties, "type")
        fields == Get(properties, "fields")
        field == fields.elems[1]
        key == Get(extractObjectProperties(field), "key")
        codes == {"STRUCTURE_OAUTH_MISSING_FIELDS_ARRAY", "STRUCTURE_OAUTH_FIELDS_NOT_ARRAY",
                  "STRUCTURE_OAUTH_INVALID_FIELD_COUNT", "STRUCTURE_OAUTH_FIELD_NOT_OBJECT",
                  "STRUCTURE_OAUTH_INVALID_FIELD_KEY"}
        expected ==
            IF Missing(fields) THEN {"STRUCTURE_OAUTH_MISSING_FIELDS_ARRAY"}
            ELSE IF ~isArrayLiteralExpression(fields) THEN {"STRUCTURE_OAUTH_FIELDS_NOT_ARRAY"}
            ELSE IF Len(fields.elems) # 1 THEN {"STRUCTURE_OAUTH_INVALID_FIELD_COUNT"}
            ELSE IF ~isObjectLiteralExpression(field) THEN {"STRUCTURE_OAUTH_FIELD_NOT_OBJECT"}
            ELSE IF Missing(key) \/ ~isStringLiteral(key) \/ key.text # "oAuthRedirectUrl"
                 THEN {"STRUCTURE_OAUTH_INVALID_FIELD_KEY"}
            ELSE {}
    IN  (/\ StructureReturned
         /\ isObjectLiteralExpression(TheAuthObject)
         /\ isStringLiteral(type)
         /\ type.text \in {"oauth", "OAuth", "OAUTH"}) =>
            \A code \in codes :
                /\ CountOf(code) = IF code \in expected THEN 1 ELSE 0
                /\ ErrorsOnly(code)

\* an OAUTH block whose single field has no key is told about the key
C13_Witness ==
    LET properties == extractObjectProperties(TheAuthObject)
        fields == Get(properties, "fields")
    IN  /\ StructureReturned
        /\ isObjectLiteralExpression(TheAuthObject)
        /\ isStringLiteral(Get(properties, "type"))
        /\ Get(properties, "type").text = "OAUTH"
        /\ isArrayLiteralExpression(fields)
        /\ Len(fields.elems) = 1
        /\ isObjectLiteralExpression(fields.elems[1])
        /\ Missing(Get(extractObjectProperties(fields.elems[1]), "key"))
        /\ IssuedAt("STRUCTURE_OAUTH_INVALID_FIELD_KEY", fields.elems[1])

\* C14: for an auth object whose type literal is cookies and whose `fields` is
\* an array: a count other than one gives one STRUCTURE_COOKIE_INVALID_FIELD_COUNT
\* and no issue about a field; a single object gives one
\* STRUCTURE_COOKIE_FIELD_MISSING_PROP per absent name among key, label, type,
\* required, readOnly, clickToCopy, and an Error of its own code when required
\* or readOnly is present but not the literal true, or clickToCopy is present
\* but not the literal false.
C14_CookieFields ==
    LET properties == extractObjectProperties(TheAuthObject)
        type == Get(properties, "type")
        fields == Get(properties, "fields")
        field == fields.elems[1]
        fieldProps == extractObjectProperties(field)
        names == {"key", "label", "type", "required", "readOnly", "clickToCopy"}
        absent == {name \in names : Missing(Get(fieldProps, name))}
        told(name) ==
            \E i \in 1..Len(result.issues) :
                /\ result.issues[i].code = "STRUCTURE_COOKIE_FIELD_MISSING_PROP"
                /\ result.issues[i].message.args = <<name>>
        perField == {"STRUCTURE_COOKIE_FIELD_MISSING_PROP", "STRUCTURE_COOKIE_FIELD_INVALID_TYPE",
                     "STRUCTURE_COOKIE_FIELD_INVALID_REQUIRED",
                     "STRUCTURE_COOKIE_FIELD_INVALID_READONLY",
                     "STRUCTURE_COOKIE_FIELD_INVALID_CLICKTOCOPY",
                     "STRUCTURE_COOKIE_FIELD_NOT_OBJECT"}
        flag(name, kind, code) ==
            /\ CountOf(code) = IF ~Missing(Get(fieldProps, name)) /\ Get(fieldProps, name).kind # kind
                               THEN 1 ELSE 0
            /\ ErrorsOnly(code)
    IN  (/\ StructureReturned
         /\ isObjectLiteralExpression(TheAuthObject)
         /\ isStringLiteral(type)
         /\ type.text = "cookies"
         /\ isArrayLiteralExpression(fields)) =>
            IF Len(fields.elems) # 1
            THEN /\ CountOf("STRUCTURE_COOKIE_INVALID_FIELD_COUNT") = 1
                 /\ ErrorsOnly("STRUCTURE_COOKIE_INVALID_FIELD_COUNT")
                 /\ \A code \in perField : CountOf(code) = 0
            ELSE isObjectLiteralExpression(field) =>
                 /\ CountOf("STRUCTURE_COOKIE_INVALID_FIELD_COUNT") = 0
                 /\ CountOf("STRUCTURE_COOKIE_FIELD_MISSING_PROP") = Cardinality(absent)
                 /\ \A name \in names : told(name) <=> name \in absent
                 /\ ErrorsOnly("STRUCTURE_COOKIE_FIELD_MISSING_PROP")
                 /\ flag("required", "TrueKeyword", "STRUCTURE_COOKIE_FIELD_INVALID_REQUIRED")
                 /\ flag("readOnly", "TrueKeyword", "STRUCTURE_COOKIE_FIELD_INVALID_READONLY")
                 /\ flag("clickToCopy", "FalseKeyword", "STRUCTURE_COOKIE_FIELD_INVALID_CLICKTOCOPY")

\* a cookies block whose single field says required: false and has all six names
C14_Witness ==
    LET properties == extractObjectProperties(TheAuthObject)
        fields == Get(properties, "fields")
        fieldProps == extractObjectProperties(fields.elems[1])
    IN  /\ StructureReturned
        /\ isObjectLiteralExpression(TheAuthObject)
        /\ isStringLiteral(Get(properties, "type"))
        /\ Get(properties, "type").text = "cookies"
        /\ isArrayLiteralExpression(fields)
        /\ Len(fields.elems) = 1
        /\ isObjectLiteralExpression(fields.elems[1])
        /\ Get(fieldProps, "required").kind = "FalseKeyword"
        /\ ~Missing(Get(fieldProps, "key"))
        /\ ~Missing(Get(fieldProps, "type"))
        /\ IssuedAt("STRUCTURE_COOKIE_FIELD_INVALID_REQUIRED", Get(fieldProps, "required"))
        /\ CountOf("STRUCTURE_COOKIE_FIELD_MISSING_PROP") = 0

\* C15: when the `actions` property of the descriptor is an empty array literal
\* the actions validator contributes exactly one issue, the Warning
\* STRUCTURE_ACTIONS_EMPTY, and a descriptor that is otherwise in order (its seven
\* required properties well typed, a key without a space, no auth, triggers or
\* dependsOn) stays valid.
C15_EmptyActions ==
    LET config == pluginCode[1].expr.elems[1]
        inits(nm) == {config.props[i].init :
                         i \in {j \in 1..Len(config.props) : config.props[j].name = nm}}
        kinds(nm) == {v.kind : v \in inits(nm)}
        string == {"StringLiteral", "NoSubstitutionTemplateLiteral"}
        typed(nm, allowed) == kinds(nm) # {} /\ kinds(nm) \subseteq allowed
        fromActions == {i \in 1..Len(result.issues) :
                           result.issues[i].component = Some(PluginComponent_ACTIONS)}
        inOrder == /\ typed("name", string) /\ typed("key", string)
                   /\ typed("categories", {"ArrayLiteralExpression"})
                   /\ typed("iconUrl", string) /\ typed("authDocUrl", string)
                   /\ typed("supportsConnections", {"TrueKeyword", "FalseKeyword"})
                   /\ typed("apiBaseUrl", string)
                   /\ kinds("auth") = {} /\ kinds("triggers") = {} /\ kinds("dependsOn") = {}
                   /\ \A v \in inits("key") : v.kind = "StringLiteral" => ~includesSpace(v.text)
    IN  (/\ call = "validateWithTsAST"
         /\ pluginCode \in DescriptorTexts
         /\ inits("actions") # {}
         /\ \A v \in inits("actions") : isArrayLiteralExpression(v) /\ v.elems = <<>>) =>
            /\ Cardinality(fromActions) = 1
            /\ \A i \in fromActions :
                  /\ result.issues[i].severity = WARNING
                  /\ result.issues[i].code = "STRUCTURE_ACTIONS_EMPTY"
            /\ "validateActionsStructure" \in {invoked[i] : i \in 1..Len(invoked)}
            /\ inOrder => result.isValid

\* a complete descriptor with `actions: []`: valid, and warned of the empty array
C15_Witness ==
    LET config == pluginCode[1].expr.elems[1]
        names == {config.props[i].name : i \in 1..Len(config.props)}
    IN  /\ call = "validateWithTsAST"
        /\ pluginCode \in DescriptorTexts
        /\ names = {"name", "key", "categories", "iconUrl", "authDocUrl",
                    "supportsConnections", "apiBaseUrl", "actions"}
        /\ CountOf("STRUCTURE_ACTIONS_EMPTY") = 1
        /\ result.isValid

\* the configuration objects listed under a property of the descriptor, written
\* as object literals or handed to the wrapper function; laid out
ConfigObjects(propertyName, wrapper) ==
    LET property == findPropertyInObjectLiteral(getDefineAppObject(TheDefineAppNode), propertyName)
        listed == IF Missing(property) THEN <<>> ELSE property.init.elems
        config(e) == IF isIdentifierCall(e, wrapper) /\ Len(e.elems) > 0 THEN e.elems[1] ELSE e
    IN  {config(listed[i]) : i \in 1..Len(listed)} \cap ObjectsBelow(TheDefineAppNode)

\* C16: a trigger whose type literal is polling and that has no run property
\* gets the Warning STRUCTURE_TRIGGER_MISSING_RUN whatever else it holds, never
\* an Error of that code; with a numeric pollInterval and name, key, type and
\* description present it gets that Warning and the result has no Error.
C16_PollingWithoutRun ==
    StructureReturned =>
        \A trigger \in ConfigObjects("triggers", "defineTrigger") :
            LET properties == extractObjectProperties(trigger)
                type == Get(properties, "type")
                present(name) == ~Missing(Get(properties, name))
            IN  (isStringLiteral(type) /\ type.text = "polling" /\ ~present("run")) =>
                    /\ IssuedAt("STRUCTURE_TRIGGER_MISSING_RUN", trigger)
                    /\ \A i \in 1..Len(result.issues) :
                          result.issues[i].code = "STRUCTURE_TRIGGER_MISSING_RUN"
                             => result.issues[i].severity = WARNING
                    /\ (/\ isNumericLiteral(Get(properties, "pollInterval"))
                        /\ present("name") /\ present("key") /\ present("description"))
                          => \A i \in 1..Len(result.issues) : result.issues[i].severity # ERROR

\* a polling trigger without run whose pollInterval is the string "15": told of
\* the interval, not of the missing run
C16_Witness ==
    /\ StructureReturned
    /\ \E trigger \in ConfigObjects("triggers", "defineTrigger") :
          LET properties == extractObjectProperties(trigger)
          IN  /\ isStringLiteral(Get(properties, "type"))
              /\ Get(properties, "type").text = "polling"
              /\ Missing(Get(properties, "run"))
              /\ isStringLiteral(Get(properties, "pollInterval"))
              /\ IssuedAt("STRUCTURE_INVALID_TYPE", Get(properties, "pollInterval"))
    /\ CountOf("STRUCTURE_TRIGGER_MISSING_RUN") = 0

\* the object literals listed in an array-valued property of an object
ListedObjects(obj, propertyName) ==
    LET listed == Get(extractObjectProperties(obj), propertyName).elems
    IN  {listed[i] : i \in {j \in 1..Len(listed) : isObjectLiteralExpression(listed[j])}}

\* the field objects reached from the descriptor: the elements of auth.fields
\* and of the `arguments` of every action and trigger
ReachedFields ==
    ListedObjects(TheAuthObject, "fields")
    \cup UNION {ListedObjects(action, "arguments") :
                   action \in ConfigObjects("actions", "defineAction")}
    \cup UNION {ListedObjects(trigger, "arguments") :
                   trigger \in ConfigObjects("triggers", "defineTrigger")}

\* dependsOn is an array of two string literals with the same text
RepeatsDependency(dependsOn) ==
    /\ isArrayLiteralExpression(dependsOn)
    /\ Len(dependsOn.elems) = 2
    /\ isStringLiteral(dependsOn.elems[1])
    /\ isStringLiteral(dependsOn.elems[2])
    /\ dependsOn.elems[1].text = dependsOn.elems[2].text

\* C17: a field object reached from the descriptor (an element of auth.fields or
\* of the `arguments` of an action or a trigger) with `dependsOn: ["a", "a"]`
\* gets the Warning STRUCTURE_DUPLICATE_DEPENDSON, located at the second "a".
C17_RepeatedDependsOn ==
    StructureReturned =>
        \A field \in ReachedFields :
            LET dependsOn == Get(extractObjectProperties(field), "dependsOn")
            IN  RepeatsDependency(dependsOn) =>
                    \E i \in 1..Len(result.issues) :
                        /\ result.issues[i].code = "STRUCTURE_DUPLICATE_DEPENDSON"
                        /\ result.issues[i].severity = WARNING
                        /\ result.issues[i].location = Loc(getNodePosition(dependsOn.elems[2]))

\* an argument of an action repeats a dependency and the result says nothing of it
C17_Witness ==
    /\ StructureReturned
    /\ \E action \in ConfigObjects("actions", "defineAction") :
          \E field \in ListedObjects(action, "arguments") :
              RepeatsDependency(Get(extractObjectProperties(field), "dependsOn"))
    /\ CountOf("STRUCTURE_DUPLICATE_DEPENDSON") = 0

\* C18: whenever an auth object has a `fields` array literal, whatever its type,
\* every object-literal element is checked: without a string-literal `type` it
\* gets Error STRUCTURE_MISSING_FIELD_TYPE; of type dropdown with an option
\* object lacking label or value, Error STRUCTURE_INVALID_DROPDOWN_OPTION; of
\* type dynamic without a `fields` array literal, Error
\* STRUCTURE_MISSING_DYNAMIC_FIELDS.
C18_AuthFieldsChecked ==
    LET flagged(code, node) ==
            \E i \in 1..Len(result.issues) :
                /\ result.issues[i].code = code
                /\ result.issues[i].severity = ERROR
                /\ result.issues[i].location = Loc(getNodePosition(node))
    IN  StructureReturned =>
            \A field \in ListedObjects(TheAuthObject, "fields") :
                LET properties == extractObjectProperties(field)
                    type == Get(properties, "type")
                    incomplete == {option \in ListedObjects(field, "options") :
                                      \/ Missing(Get(extractObjectProperties(option), "label"))
                                      \/ Missing(Get(extractObjectProperties(option), "value"))}
                IN  /\ ~isStringLiteral(type) => flagged("STRUCTURE_MISSING_FIELD_TYPE", field)
                    /\ (isStringLiteral(type) /\ type.text = "dropdown") =>
                          \A option \in incomplete :
                              flagged("STRUCTURE_INVALID_DROPDOWN_OPTION", option)
                    /\ (/\ isStringLiteral(type) /\ type.text = "dynamic"
                        /\ ~isArrayLiteralExpression(Get(properties, "fields"))) =>
                          flagged("STRUCTURE_MISSING_DYNAMIC_FIELDS", field)

\* a dropdown field of a manual auth block has an option without a value and
\* the result holds no issue of the three codes
C18_Witness ==
    /\ StructureReturned
    /\ isStringLiteral(Get(extractObjectProperties(TheAuthObject), "type"))
    /\ Get(extractObjectProperties(TheAuthObject), "type").text = "manual"
    /\ \E field \in ListedObjects(TheAuthObject, "fields") :
          /\ isStringLiteral(Get(extractObjectProperties(field), "type"))
          /\ Get(extractObjectProperties(field), "type").text = "dropdown"
          /\ \E option \in ListedObjects(field, "options") :
                Missing(Get(extractObjectProperties(option), "value"))
    /\ CountOf("STRUCTURE_INVALID_DROPDOWN_OPTION") = 0
    /\ CountOf("STRUCTURE_MISSING_FIELD_TYPE") = 0
    /\ CountOf("STRUCTURE_MISSING_DYNAMIC_FIELDS") = 0

\* the result holds an issue about that object: one of a dynamic component, or
\* one located at the object or inside it
IssueAbout(element) ==
    \E i \in 1..Len(result.issues) :
        \/ result.issues[i].component \in {Some(PluginComponent_DYNAMIC_FIELDS),
                                           Some(PluginComponent_DYNAMIC_DATA)}
        \/ /\ result.issues[i].location # None
           /\ LET at == result.issues[i].location[1]
                  offset == (at.line - 1) * LineWidth + (at.column - 1)
              IN  offset \in element.start .. (element.start + Size(element) - 1)

\* C19: every element of `dynamicFields` and every provider of `dynamicData` is
\* held to the minimum contract: one that lacks `name`, lacks `key` or lacks a
\* function-like `run` brings at least one issue about it into the result.
C19_DynamicContract ==
    StructureReturned =>
        \A property \in {"dynamicFields", "dynamicData"} :
            \A element \in ListedObjects(getDefineAppObject(TheDefineAppNode), property) :
                LET properties == extractObjectProperties(element)
                IN  (\/ Missing(Get(properties, "name"))
                     \/ Missing(Get(properties, "key"))
                     \/ ~isFunctionLike(Get(properties, "run"))) => IssueAbout(element)

\* a provider of dynamicData has neither key nor run, and all the result holds
\* are the Warnings about property names the descriptor rule does not know
C19_Witness ==
    /\ StructureReturned
    /\ \E element \in ListedObjects(getDefineAppObject(TheDefineAppNode), "dynamicData") :
          /\ Missing(Get(extractObjectProperties(element), "key"))
          /\ Missing(Get(extractObjectProperties(element), "run"))
    /\ result.isValid
    /\ \A i \in 1..Len(result.issues) : result.issues[i].code = "STRUCTURE_UNKNOWN_PROPERTY"

\* C20: a trigger object whose `type` is a string literal gets Error
\* STRUCTURE_INVALID_TRIGGER_TYPE exactly when the text is none of messaging,
\* webhook, polling, internal; a trigger gets one Error
\* STRUCTURE_TRIGGER_MISSING_PROPERTY for each of name, key, type, description it
\* lacks.
C20_TriggerTypeAndRequired ==
    StructureReturned =>
        \A trigger \in ConfigObjects("triggers", "defineTrigger") :
            LET properties == extractObjectProperties(trigger)
                type == Get(properties, "type")
                lacking == {name \in {"name", "key", "type", "description"} :
                               Missing(Get(properties, name))}
                missingIssues ==
                    {i \in 1..Len(result.issues) :
                        /\ result.issues[i].code = "STRUCTURE_TRIGGER_MISSING_PROPERTY"
                        /\ result.issues[i].location = Loc(getNodePosition(trigger))}
            IN  /\ isStringLiteral(type) =>
                      /\ IssuedAt("STRUCTURE_INVALID_TRIGGER_TYPE", type)
                            <=> type.text \notin {"messaging", "webhook", "polling", "internal"}
                      /\ ErrorsOnly("STRUCTURE_INVALID_TRIGGER_TYPE")
                /\ Cardinality(missingIssues) = Cardinality(lacking)
                /\ \A name \in lacking :
                      \E i \in missingIssues : result.issues[i].message.args[2] = name
                /\ \A i \in missingIssues : result.issues[i].severity = ERROR

\* a trigger of type "Polling" that lacks its key: one Error for the type, one
\* for the key
C20_Witness ==
    /\ StructureReturned
    /\ \E trigger \in ConfigObjects("triggers", "defineTrigger") :
          LET properties == extractObjectProperties(trigger)
          IN  /\ isStringLiteral(Get(properties, "type"))
              /\ Get(properties, "type").text = "Polling"
              /\ Missing(Get(properties, "key"))
              /\ ~Missing(Get(properties, "name"))
              /\ ~Missing(Get(properties, "description"))
              /\ IssuedAt("STRUCTURE_INVALID_TRIGGER_TYPE", Get(properties, "type"))
    /\ CountOf("STRUCTURE_TRIGGER_MISSING_PROPERTY") = 1
    /\ CountOf("STRUCTURE_INVALID_TRIGGER_TYPE") = 1

(***************************************************************************)
(* Reading what generateSuggestion returned                                *)
(***************************************************************************)
TableCodes ==
    {"STRUCTURE_MISSING_DEFINEAPP", "STRUCTURE_MISSING_PROPERTY",
     "STRUCTURE_DEFINEAPP_NO_ARGS", "STRUCTURE_ACTIONS_EMPTY",
     "STRUCTURE_ACTION_MISSING_IMPLEMENTATION"}

Embedded(issue) == issue.suggestion # None /\ issue.suggestion[1] # EmptyString

IsText(returned) == DOMAIN returned = {"tmpl", "args"}

\* C21 (as stated): generateSuggestion returns a string for every issue: the
\* embedded suggestion when the issue carries one, otherwise the fixed text of
\* its code, the same for every issue of that code, and the empty string for a
\* code outside the table.
C21_TwoTier ==
    \A s \in suggestions :
        /\ IsText(s.returned)
        /\ Embedded(s.issue) => s.returned = s.issue.suggestion[1]
        /\ ~Embedded(s.issue) =>
              /\ s.issue.code \notin TableCodes => s.returned = EmptyString
              /\ s.issue.code \in TableCodes =>
                    /\ s.returned # EmptyString
                    /\ \A t \in suggestions :
                          ~Embedded(t.issue) /\ t.issue.code = s.issue.code
                              => t.returned = s.returned

\* C21 (amended): generateSuggestion returns a string for every issue: the
\* embedded suggestion when it is a non-empty string; otherwise, for
\* STRUCTURE_MISSING_DEFINEAPP, STRUCTURE_DEFINEAPP_NO_ARGS,
\* STRUCTURE_ACTIONS_EMPTY and STRUCTURE_ACTION_MISSING_IMPLEMENTATION, a
\* non-empty text fixed by the code; for STRUCTURE_MISSING_PROPERTY on an issue
\* with a component, a text naming the first quoted word of the message
\* ('unknown' when there is none) and the component; the empty string in
\* every other case.
C21_TwoTierAmended ==
    \A s \in suggestions :
        /\ IsText(s.returned)
        /\ Embedded(s.issue) => s.returned = s.issue.suggestion[1]
        /\ ~Embedded(s.issue) =>
              /\ s.issue.code \in TableCodes \ {"STRUCTURE_MISSING_PROPERTY"} =>
                    /\ s.returned # EmptyString
                    /\ s.returned.args = <<>>
                    /\ \A t \in suggestions :
                          ~Embedded(t.issue) /\ t.issue.code = s.issue.code
                              => t.returned = s.returned
              /\ s.issue.code = "STRUCTURE_MISSING_PROPERTY" /\ s.issue.component # None =>
                    /\ s.returned.tmpl = "Add the '%' property to your % definition"
                    /\ s.returned.args[2] = s.issue.component[1]
                    /\ s.returned.args[1] =
                          IF s.issue.message = Some(<<"n", "o", " ", "'", "k", "'", " ", "'", "x", "'">>)
                          THEN <<"k">>
                          ELSE IF s.issue.message = Some(<<"'", "'", "k", "'">>)
                          THEN <<"'", "k">>
                          ELSE unknownWord
              /\ \/ s.issue.code \notin TableCodes
                 \/ s.issue.code = "STRUCTURE_MISSING_PROPERTY" /\ s.issue.component = None
                 => s.returned = EmptyString

\* two issues of code STRUCTURE_MISSING_PROPERTY without a suggestion of their
\* own have been asked about, one with a component and one without, and a
\* third that carries its suggestion
C21_Witness ==
    /\ \E s \in suggestions :
          /\ s.issue.code = "STRUCTURE_MISSING_PROPERTY"
          /\ s.issue.suggestion = None
          /\ s.issue.component # None
          /\ s.returned.args = <<<<"k">>, PluginComponent_DEFINE_APP>>
    /\ \E s \in suggestions :
          /\ s.issue.code = "STRUCTURE_ACTIONS_EMPTY"
          /\ Embedded(s.issue)
          /\ s.returned = Msg("Rename it", <<>>)

\* C22: within one returned ValidationResult no two issues share both the code
\* and the location (line, column): the pair identifies an issue.
C22_CodeAndLocationUnique ==
    outcome = "returned" =>
        \A i, j \in 1..Len(result.issues) :
            /\ i # j
            /\ result.issues[i].location # None
            /\ result.issues[i].code = result.issues[j].code
            => result.issues[i].location # result.issues[j].location

\* a descriptor lacks two required properties and the result carries two
\* issues of one code at the position of the configuration object
C22_Witness ==
    /\ StructureReturned
    /\ ~Missing(TheDefineAppNode)
    /\ ~Missing(getDefineAppObject(TheDefineAppNode))
    /\ LET properties == extractObjectProperties(getDefineAppObject(TheDefineAppNode))
       IN  Missing(Get(properties, "name")) /\ Missing(Get(properties, "iconUrl"))
    /\ \E i, j \in 1..Len(result.issues) :
          /\ i < j
          /\ result.issues[i].code = "STRUCTURE_MISSING_PROPERTY"
          /\ result.issues[j].code = "STRUCTURE_MISSING_PROPERTY"
          /\ result.issues[i].location = Loc(getNodePosition(getDefineAppObject(TheDefineAppNode)))
          /\ result.issues[j].location = result.issues[i].location

\* C23: an action with neither `run` nor `handler`, or whose `run` or `handler`
\* is not a function-like expression, gets Error
\* STRUCTURE_ACTION_MISSING_IMPLEMENTATION; an action with a function-like `run`
\* or `handler` never gets it.
C23_ImplementationRequired ==
    StructureReturned =>
        \A action \in ConfigObjects("actions", "defineAction") :
            LET properties == extractObjectProperties(action)
                functionLike == \/ isFunctionLike(Get(properties, "run"))
                                \/ isFunctionLike(Get(properties, "handler"))
            IN  /\ ErrorsOnly("STRUCTURE_ACTION_MISSING_IMPLEMENTATION")
                /\ IssuedAt("STRUCTURE_ACTION_MISSING_IMPLEMENTATION", action) <=> ~functionLike

\* an action whose run is the number 5 has been validated without that Error
C23_Witness ==
    /\ StructureReturned
    /\ \E action \in ConfigObjects("actions", "defineAction") :
          /\ isNumericLiteral(Get(extractObjectProperties(action), "run"))
          /\ Missing(Get(extractObjectProperties(action), "handler"))
    /\ CountOf("STRUCTURE_ACTION_MISSING_IMPLEMENTATION") = 0

\* the elements of the array literal written for that property of the descriptor
ListedElements(propertyName) ==
    LET property == findPropertyInObjectLiteral(getDefineAppObject(TheDefineAppNode), propertyName)
    IN  IF Missing(property) \/ ~isArrayLiteralExpression(property.init) THEN <<>>
        ELSE property.init.elems

\* what the claim says of one element: which single outcome it has
ElementOutcome(e, builder, missingCode, noArgs, notObject, invalid) ==
    LET builderCall == isIdentifierCall(e, builder)
        config == IF builderCall /\ Len(e.elems) > 0 THEN e.elems[1] ELSE e
        validated == IssuedAt(missingCode, config) /\ isObjectLiteralExpression(config)
        wanted ==
            IF isObjectLiteralExpression(e) THEN "validated"
            ELSE IF builderCall /\ Len(e.elems) = 0 THEN "noArgs"
            ELSE IF builderCall /\ Len(e.elems) = 1 /\ isObjectLiteralExpression(e.elems[1])
            THEN "validated"
            ELSE IF builderCall /\ Len(e.elems) = 1 THEN "notObject"
            ELSE "invalid"
    IN  /\ validated <=> wanted = "validated"
        /\ IssuedAt(noArgs, e) <=> wanted = "noArgs"
        /\ (builderCall /\ Len(e.elems) > 0 /\ IssuedAt(notObject, e.elems[1])) <=> wanted = "notObject"
        /\ IssuedAt(invalid, e) <=> wanted = "invalid"

\* C24: an element of the actions (triggers) array has its properties validated
\* only if it is an object literal or a defineAction (defineTrigger) call with
\* exactly one argument, an object literal; a builder call without arguments
\* gets STRUCTURE_ACTION_NO_ARGS (STRUCTURE_TRIGGER_NO_ARGS), one whose argument
\* is no object literal STRUCTURE_ACTION_NOT_OBJECT (STRUCTURE_TRIGGER_NOT_OBJECT),
\* every other shape, a builder call with several arguments included,
\* STRUCTURE_INVALID_ACTION_DEFINITION (STRUCTURE_INVALID_TRIGGER_DEFINITION);
\* one outcome and only one for each element.  Read on the candidates whose
\* actions and triggers lack a required property, where a validation of the
\* properties shows in the result.
C24_ElementShapes ==
    StructureReturned /\ pluginCode \in ElementTexts =>
        /\ \A i \in 1..Len(ListedElements("actions")) :
              ElementOutcome(ListedElements("actions")[i], "defineAction",
                             "STRUCTURE_ACTION_MISSING_PROPERTY", "STRUCTURE_ACTION_NO_ARGS",
                             "STRUCTURE_ACTION_NOT_OBJECT",
                             "STRUCTURE_INVALID_ACTION_DEFINITION")
        /\ \A i \in 1..Len(ListedElements("triggers")) :
              ElementOutcome(ListedElements("triggers")[i], "defineTrigger",
                             "STRUCTURE_TRIGGER_MISSING_PROPERTY", "STRUCTURE_TRIGGER_NO_ARGS",
                             "STRUCTURE_TRIGGER_NOT_OBJECT",
                             "STRUCTURE_INVALID_TRIGGER_DEFINITION")

\* defineAction was handed a configuration and a second argument; the
\* configuration was validated and the call not refused
C24_Witness ==
    /\ StructureReturned
    /\ pluginCode \in ElementTexts
    /\ \E i \in 1..Len(ListedElements("actions")) :
          LET e == ListedElements("actions")[i]
          IN  /\ isIdentifierCall(e, "defineAction")
              /\ Len(e.elems) = 2
              /\ isObjectLiteralExpression(e.elems[1])
              /\ IssuedAt("STRUCTURE_ACTION_MISSING_PROPERTY", e.elems[1])
              /\ ~IssuedAt("STRUCTURE_INVALID_ACTION_DEFINITION", e)

\* the object literals whose properties the validator goes through: the
\* descriptor, the actions, the auth object, the triggers
ValidatedObjects ==
    LET descriptor == getDefineAppObject(TheDefineAppNode)
    IN  (IF Missing(descriptor) THEN {} ELSE {descriptor})
        \cup ConfigObjects("actions", "defineAction")
        \cup ConfigObjects("triggers", "defineTrigger")
        \cup (IF isObjectLiteralExpression(TheAuthObject) THEN {TheAuthObject} ELSE {})

DependsOnCodes ==
    {"STRUCTURE_INVALID_DEPENDSON", "STRUCTURE_EMPTY_DEPENDSON",
     "STRUCTURE_INVALID_DEPENDSON_ELEMENT", "STRUCTURE_DUPLICATE_DEPENDSON"}

\* the issues of that code and severity at the position of a node
IssuesAt(code, severity, node) ==
    {i \in 1..Len(result.issues) :
        /\ result.issues[i].code = code
        /\ result.issues[i].severity = severity
        /\ result.issues[i].location = Loc(getNodePosition(node))}

\* the object has one member of that name, a property with the key unquoted
WrittenOnce(obj, name) ==
    /\ Cardinality({i \in 1..Len(obj.props) : obj.props[i].name = name}) = 1
    /\ \E i \in 1..Len(obj.props) :
          /\ obj.props[i].name = name
          /\ isPropertyAssignment(obj.props[i])
          /\ obj.props[i].nameKind = "Identifier"

\* what the claim says of the dependsOn of one object
DependsOnOutcome(dependsOn) ==
    LET all == {i \in 1..Len(result.issues) : result.issues[i].code \in DependsOnCodes}
        elems == dependsOn.elems
        strings == {k \in 1..Len(elems) : isStringLike(elems[k])}
        repeats == {k \in strings : \E j \in strings : j < k /\ elems[j].text = elems[k].text}
    IN  IF ~isArrayLiteralExpression(dependsOn)
        THEN /\ Cardinality(all) = 1
             /\ Cardinality(IssuesAt("STRUCTURE_INVALID_DEPENDSON", ERROR, dependsOn)) = 1
        ELSE IF Len(elems) = 0
        THEN /\ Cardinality(all) = 1
             /\ Cardinality(IssuesAt("STRUCTURE_EMPTY_DEPENDSON", WARNING, dependsOn)) = 1
        ELSE /\ \A k \in 1..Len(elems) :
                   /\ Cardinality(IssuesAt("STRUCTURE_INVALID_DEPENDSON_ELEMENT", ERROR, elems[k]))
                          = IF k \in strings THEN 0 ELSE 1
                   /\ Cardinality(IssuesAt("STRUCTURE_DUPLICATE_DEPENDSON", WARNING, elems[k]))
                          = IF k \in repeats THEN 1 ELSE 0
             /\ Cardinality(all) = (Len(elems) - Cardinality(strings)) + Cardinality(repeats)
             /\ Cardinality(repeats)
                    = Cardinality(strings) - Cardinality({elems[k].text : k \in strings})

C26_OnePropertyMap ==
    StructureReturned /\ pluginCode \in LookupTexts \cup DependsOnTexts =>
        LET descriptor == getDefineAppObject(TheDefineAppNode)
            properties == extractObjectProperties(descriptor)
            name == Get(properties, "name")
            actions == Get(properties, "actions")
            auth == Get(properties, "auth")
            triggers == Get(properties, "triggers")
        IN  /\ Missing(name) <=>
                  \E i \in 1..Len(result.issues) :
                      /\ result.issues[i].code = "STRUCTURE_MISSING_PROPERTY"
                      /\ result.issues[i].message.args = <<"name">>
            /\ (~Missing(name) /\ ~isStringLike(name)) <=>
                  (~Missing(name) /\ IssuedAt("STRUCTURE_INVALID_TYPE", name))
            /\ (~Missing(actions) /\ ~isArrayLiteralExpression(actions)) <=>
                  CountOf("STRUCTURE_ACTIONS_NOT_ARRAY") = 1
            /\ (~Missing(auth) /\ ~isObjectLiteralExpression(auth)) <=>
                  CountOf("STRUCTURE_AUTH_NOT_OBJECT") = 1
            /\ (~Missing(triggers) /\ ~isArrayLiteralExpression(triggers)) <=>
                  CountOf("STRUCTURE_TRIGGERS_NOT_ARRAY") = 1
            /\ \A obj \in ValidatedObjects :
                  LET dependsOn == Get(extractObjectProperties(obj), "dependsOn")
                  IN  (~Missing(dependsOn) /\ ~isArrayLiteralExpression(dependsOn)) <=>
                          (~Missing(dependsOn) /\ IssuedAt("STRUCTURE_INVALID_DEPENDSON", dependsOn))

\* actions is written twice, last as an array, and the result refuses it as no
\* array; or dependsOn is written with a quoted key and a value that is no array
\* and the result says nothing of it
C26_Witness ==
    /\ StructureReturned
    /\ \/ /\ pluginCode \in LookupTexts
          /\ isArrayLiteralExpression(Get(extractObjectProperties(
                 getDefineAppObject(TheDefineAppNode)), "actions"))
          /\ CountOf("STRUCTURE_ACTIONS_NOT_ARRAY") = 1
       \/ /\ pluginCode \in DependsOnTexts
          /\ \E obj \in ValidatedObjects :
                /\ \E i \in 1..Len(obj.props) :
                      obj.props[i].name = "dependsOn" /\ obj.props[i].nameKind = "StringLiteral"
                /\ isStringLiteral(Get(extractObjectProperties(obj), "dependsOn"))
          /\ \A i \in 1..Len(result.issues) : result.issues[i].code \notin DependsOnCodes

\* C27: when `actions` is a property of an object literal other than the
\* configuration object of the defineApp call (inside auth, inside the object
\* value of another property), the structural validator issues an Error
\* STRUCTURE_IMPROPER_NESTING for it.
C27_NestedActions ==
    StructureReturned /\ ~Missing(TheDefineAppNode) =>
        \A obj \in ObjectsBelow(TheDefineAppNode) \ {getDefineAppObject(TheDefineAppNode)} :
            ~Missing(Get(extractObjectProperties(obj), "actions")) =>
                \E i \in 1..Len(result.issues) :
                    /\ result.issues[i].code = "STRUCTURE_IMPROPER_NESTING"
                    /\ result.issues[i].severity = ERROR

\* the auth object of a descriptor has a property `actions` and the result has
\* no issue of that code
C27_Witness ==
    /\ StructureReturned
    /\ isObjectLiteralExpression(TheAuthObject)
    /\ ~Missing(Get(extractObjectProperties(TheAuthObject), "actions"))
    /\ CountOf("STRUCTURE_IMPROPER_NESTING") = 0

\* the names the validator requires of a descriptor or dispatches on
RequiredOrDispatched ==
    {"name", "key", "categories", "iconUrl", "authDocUrl", "supportsConnections",
     "apiBaseUrl", "auth", "actions", "triggers", "dynamicFields", "dynamicData"}

\* C28: no Warning STRUCTURE_UNKNOWN_PROPERTY is issued for one of the seven
\* required descriptor properties nor for auth, actions, triggers, dynamicFields
\* or dynamicData, so that a descriptor with exactly the seven required
\* properties, well typed, yields an empty list of issues.
C28_KnownProperties ==
    StructureReturned =>
        /\ \A i \in 1..Len(result.issues) :
              result.issues[i].code = "STRUCTURE_UNKNOWN_PROPERTY" =>
                  result.issues[i].message.args[1] \notin RequiredOrDispatched
        /\ pluginCode = <<DefineApp(FullDescriptor(<<>>))>> => result.issues = <<>>

\* the descriptor with exactly the seven required properties has been
\* validated and the result holds five Warnings, one for each of categories,
\* iconUrl, authDocUrl, supportsConnections and apiBaseUrl
C28_Witness ==
    /\ StructureReturned
    /\ pluginCode = <<DefineApp(FullDescriptor(<<>>))>>
    /\ Len(result.issues) = 5
    /\ result.isValid
    /\ \A nm \in {"categories", "iconUrl", "authDocUrl", "supportsConnections", "apiBaseUrl"} :
          \E i \in 1..Len(result.issues) :
              /\ result.issues[i].code = "STRUCTURE_UNKNOWN_PROPERTY"
              /\ result.issues[i].severity = WARNING
              /\ result.issues[i].message.args = <<nm>>

\* the object literal has a method of that name
HasMethod(obj, name) ==
    \E i \in 1..Len(obj.props) :
        obj.props[i].kind = "MethodDeclaration" /\ obj.props[i].name = name

\* C29: a member written as a method (`async run($) {...}`,
\* `verifyCredentials($) {...}`) counts as a present, function-like property:
\* an action whose run is a method gets no
\* STRUCTURE_ACTION_MISSING_IMPLEMENTATION, and an auth object whose
\* verifyCredentials or isStillVerified is a method gets no
\* STRUCTURE_<TYPE>_MISSING_PROPERTY for it.
C29_MethodsCount ==
    StructureReturned =>
        /\ \A action \in ConfigObjects("actions", "defineAction") :
              HasMethod(action, "run") =>
                  ~IssuedAt("STRUCTURE_ACTION_MISSING_IMPLEMENTATION", action)
        /\ isObjectLiteralExpression(TheAuthObject) =>
              \A name \in {"verifyCredentials", "isStillVerified"} :
                  HasMethod(TheAuthObject, name) =>
                      \A i \in 1..Len(result.issues) :
                          result.issues[i].code \in {"STRUCTURE_MANUAL_MISSING_PROPERTY",
                                                     "STRUCTURE_OAUTH_MISSING_PROPERTY",
                                                     "STRUCTURE_COOKIE_MISSING_PROPERTY"}
                              => result.issues[i].message.args[2] # name

\* an action whose run is a method has been refused for want of an
\* implementation
C29_Witness ==
    /\ StructureReturned
    /\ \E action \in ConfigObjects("actions", "defineAction") :
          /\ HasMethod(action, "run")
          /\ IssuedAt("STRUCTURE_ACTION_MISSING_IMPLEMENTATION", action)
    /\ ~result.isValid

\* the text holds a space, a tab or a line break
HoldsWhitespace(text) ==
    text \in {"my app", "send  mail", "my\tapp", "send\nmail", "my \tapp", " mail"}

\* the text with every run of white space turned into one dash
WithDashes(text) ==
    CASE text \in {"my app", "my\tapp", "my \tapp"} -> <<"m", "y", "-", "a", "p", "p">>
      [] text \in {"send  mail", "send\nmail"} ->
            <<"s", "e", "n", "d", "-", "m", "a", "i", "l">>
      [] text = " mail" -> <<"-", "m", "a", "i", "l">>
      [] OTHER -> <<text>>

\* what the claim says of one key that is a string literal
KeyOutcome(key, code) ==
    /\ IssuedAt(code, key) <=> HoldsWhitespace(key.text)
    /\ \A i \in 1..Len(result.issues) :
          result.issues[i].code = code /\ result.issues[i].location = Loc(getNodePosition(key))
              => /\ result.issues[i].severity = ERROR
                 /\ result.issues[i].suggestion # None
                 /\ result.issues[i].suggestion[1].args = <<WithDashes(key.text)>>

\* C30: for the key of the descriptor and the key of every action, when it is a
\* string literal: an Error (STRUCTURE_INVALID_KEY, STRUCTURE_INVALID_ACTION_KEY)
\* is issued if and only if the text holds a white-space character (space, tab
\* or line break), and its suggestion shows the key with every run of white
\* space replaced by a dash.
C30_KeyWhitespace ==
    StructureReturned /\ ~Missing(getDefineAppObject(TheDefineAppNode)) =>
        /\ LET key == Get(extractObjectProperties(getDefineAppObject(TheDefineAppNode)), "key")
           IN  isStringLiteral(key) => KeyOutcome(key, "STRUCTURE_INVALID_KEY")
        /\ \A action \in ConfigObjects("actions", "defineAction") :
              LET key == Get(extractObjectProperties(action), "key")
              IN  isStringLiteral(key) => KeyOutcome(key, "STRUCTURE_INVALID_ACTION_KEY")

\* the key of the descriptor holds a tab and no space, and the result has no
\* issue about it
C30_Witness ==
    /\ StructureReturned
    /\ ~Missing(getDefineAppObject(TheDefineAppNode))
    /\ LET key == Get(extractObjectProperties(getDefineAppObject(TheDefineAppNode)), "key")
       IN  isStringLiteral(key) /\ key.text = "my\tapp"
    /\ CountOf("STRUCTURE_INVALID_KEY") = 0
    /\ result.isValid

====
